---- MODULE Spec2Model ----
(***************************************************************************)
(* Model of the request layer of the Visual ERP frontend:                  *)
(*   - EnhancedAPIService (src/src/lib/api-enhanced.js): makeRequest with  *)
(*     its retry loop, the offline request queue, processQueue, and the    *)
(*     token-changing calls authenticate / refreshToken;                   *)
(*   - ApiService (src/src/App.jsx, lines 704-922): request with its retry *)
(*     loop.                                                               *)
(* JavaScript runs one task at a time, so every action below is one run of *)
(* a handler or of an async function from one suspension point to the next.*)
(***************************************************************************)
EXTENDS Integers, Sequences, FiniteSets, TLC

\* ------------------------------------------------------------------ bounds
\* Invocations explored together with the connectivity events and the queue.
MaxCalls == 2
\* Invocations explored together under every answer of the backend.
MaxRetryCalls == 1

\* ------------------------------------------------------- program constants
retryAttempts == 3
retryDelay == 1000

Ids == 1..MaxCalls

\* options.method as the callers pass it; "NONE" is a call without a method
\* (every list/get call of EnhancedAPIService, api-enhanced.js:148,158,...).
Methods == {"NONE", "GET", "POST", "PUT", "DELETE"}
Mutations == {"POST", "PUT", "DELETE"}

\* Bearer tokens; "" is "no token installed".
Tokens == {"t1"}

\* What a fetch can come back with.  status 0 is a rejected fetch (network
\* error).  The body is "data" (JSON without a message field), "msg" (JSON
\* with a message field of plain text), "msg401" (JSON whose message text
\* contains the characters 401) or "nonjson" (not parseable as JSON).
NETERR == 0
BADJSON == 1
Statuses == {200, 400, 401, 403, 404, 500}
Bodies == {"data", "msg", "msg401", "nonjson"}
Outcomes ==
    {[status |-> NETERR, body |-> "nonjson", token |-> ""]}
    \cup [status : Statuses, body : Bodies, token : {""}]
    \cup [status : {200}, body : {"data"}, token : Tokens]

VARIABLES
    isOnline,       \* EnhancedAPIService.isOnline
    apiKey,         \* EnhancedAPIService.apiKey
    requestQueue,   \* EnhancedAPIService.requestQueue: call ids, oldest first
    lsToken,        \* localStorage 'visual_erp_token' ("" when absent)
    lsUser,         \* localStorage 'visual_erp_user'  ("" when absent)
    api_isOnline,   \* ApiService.isOnline
    call,           \* every makeRequest / request invocation, by id
    api_apiKey,     \* ApiService.apiKey
    isAuthenticated,\* AuthProvider state (part_000:28)
    user,           \* AuthProvider state (part_000:29); "" is null
    isLoading,      \* AuthProvider state (part_000:30)
    error,          \* AuthProvider state (part_000:31)
    check,          \* the checkAuthStatus run of this mount and its locals
    last,           \* history: the AuthProvider operation that has just ended
    baseURL,        \* baseURL of both services (VITE_API_URL or the default)
    result,         \* what each list read handed to its caller, by call id
    view,           \* which of QuoteCRUD, InventoryCRUD and CustomerCRUD is mounted
    quotes,         \* QuoteCRUD state (QuoteCRUD.jsx:20): the loaded quotes
    loaded,         \* history: the list the last setQuotes installed
    products,       \* InventoryCRUD state (ActionMenu.jsx:317): the loaded products
    customers,      \* CustomerCRUD state (README.md:152): the loaded customers
    editingProduct, \* InventoryCRUD state (ActionMenu.jsx:321): its id, 0 is null
    editingCustomer,\* CustomerCRUD state (README.md:156): its id, 0 is null
    loading,        \* state of the mounted component (QuoteCRUD.jsx:22)
    showForm,       \* state of the mounted component (QuoteCRUD.jsx:24)
    editingQuote,   \* QuoteCRUD state (QuoteCRUD.jsx:25): its index in quotes, 0 is null
    formData,       \* state of the mounted component (QuoteCRUD.jsx:26-32)
    formErrors,     \* state of the mounted component (QuoteCRUD.jsx:33): its messages
    submitting,     \* state of the mounted component (QuoteCRUD.jsx:34)
    request,        \* history: the create / update invocation in flight
    analytics_isOnline, \* AnalyticsService.isOnline (api-enhanced.js:547)
    errorQueue,     \* AnalyticsService.errorQueue (api-enhanced.js:545)
    eventQueue,     \* AnalyticsService.eventQueue (api-enhanced.js:546)
    inFlight,       \* the batches of the flushes that are awaiting sendData
    delivered,      \* history: the items whose batch sendData has delivered
    logged,         \* history: the queue each item was logged to, by item
    visualFeed,     \* VisualFeed state (QuoteCRUD.jsx:903-906); items is items.length
    enhancedVisualFeed \* EnhancedVisualFeed state (QuoteCRUD.jsx:1130-1133), likewise

\* The state of AuthProvider and of the ApiService instance it drives.
authVars == <<api_apiKey, isAuthenticated, user, isLoading, error, check, last>>

vars == <<isOnline, apiKey, requestQueue, lsToken, lsUser, api_isOnline, call,
          api_apiKey, isAuthenticated, user, isLoading, error, check, last,
          baseURL, result,
          view, quotes, loaded, products, customers, editingProduct,
          editingCustomer, loading, showForm, editingQuote, formData, formErrors,
          submitting, request,
          analytics_isOnline, errorQueue, eventQueue, inFlight, delivered, logged,
          visualFeed, enhancedVisualFeed>>

\* The configuration and the outcomes of the list reads.
listVars == <<baseURL, result>>

\* The state of the QuoteCRUD component.
quoteVars == <<quotes, loaded, loading, showForm, editingQuote, formData,
               formErrors, submitting, request>>

\* The state of EnhancedVisualFeed and of the VisualFeed it renders.
feedVars == <<visualFeed, enhancedVisualFeed>>

\* The state of AnalyticsService.
analyticsVars == <<analytics_isOnline, errorQueue, eventQueue, inFlight, delivered, logged>>

\* What belongs to InventoryCRUD and to CustomerCRUD alone.  The three
\* components declare loading, showForm, formData, formErrors and submitting
\* alike and one of them is mounted at a time: those variables are the
\* mounted component's.
otherForms == <<view, products, customers, editingProduct, editingCustomer>>

\* The state of the components, which the services never touch.
uiVars == <<quoteVars, otherForms, analyticsVars, feedVars>>

\* The state of the services and of AuthProvider, which the components reach
\* only through the calls modelled below.
serviceVars == <<isOnline, apiKey, requestQueue, lsToken, lsUser, api_isOnline,
                 call, authVars, listVars>>

\* What no handler of the three forms touches.
outsideForms == <<serviceVars, analyticsVars, feedVars>>

NoError == [status |-> -1, cites |-> {}]

\* A call that has not been issued yet.  svc, op, method and token are the
\* invocation and the config it built; attempt, lastError and pc are its loop
\* state.  fetches (how many times the call has called fetch), allTransient
\* (every fetch that failed so far failed with a network error or a 5xx),
\* delays (the timeouts it has set), queued (it went through the offline
\* queue), onlineSince (an 'online' event arrived since it was queued) and
\* reply (the answer its replayed fetch got) record history; the code does
\* not read them.
NoReply == [status |-> -1, body |-> "-"]

NoCall ==
    [svc |-> "-", op |-> "-", method |-> "-", token |-> "", pc |-> "unused",
     attempt |-> 0, lastError |-> NoError,
     fetches |-> 0, allTransient |-> TRUE, delays |-> <<>>,
     queued |-> FALSE, onlineSince |-> FALSE, reply |-> NoReply]

\* ---------------------------------------------------------- pure helpers
IsOk(status) == status >= 200 /\ status <= 299

Parseable(body) == body # "nonjson"

HasMessage(body) == body \in {"msg", "msg401"}

\* The three-digit codes among 400, 401, 403, 404 that occur in a text.
BodyCites(body) == IF body = "msg401" THEN {401} ELSE {}

StatusCites(status) == {status} \cap {400, 401, 403, 404}

\* String.prototype.includes on an error message, for the four codes tested.
Includes(err, code) == code \in err.cites

\* A failure the retry is meant for: a rejected fetch or a 5xx answer.
Transient(o) == o.status = NETERR \/ o.status >= 500

\* A fetch that yields the parsed body to the caller.
Succeeds(o) == o.status # NETERR /\ IsOk(o.status) /\ Parseable(o.body)

\* EnhancedAPIService.makeRequest, lines 44-47, and the rejections of fetch
\* and of response.json(): the Error the try block throws.  An ok answer whose
\* body does not parse is recorded with status BADJSON.
EnhancedError(o) ==
    IF o.status = NETERR THEN [status |-> NETERR, cites |-> {}]
    ELSE IF IsOk(o.status) THEN [status |-> BADJSON, cites |-> {}]
    ELSE [status |-> o.status,
          cites |-> StatusCites(o.status)
                    \cup (IF HasMessage(o.body) THEN BodyCites(o.body) ELSE {})]

\* ApiService.request, lines 754-777: the message is the body's message, else
\* "HTTP <status>: <statusText>", then rewritten for 401, 403, 404 and 5xx.
ApiError(o) ==
    IF o.status = NETERR THEN [status |-> NETERR, cites |-> {}]
    ELSE IF IsOk(o.status) THEN [status |-> BADJSON, cites |-> {}]
    ELSE IF o.status = 401 \/ o.status = 403 \/ o.status = 404 \/ o.status >= 500
    THEN [status |-> o.status, cites |-> {}]
    ELSE [status |-> o.status,
          cites |-> IF HasMessage(o.body) THEN BodyCites(o.body)
                    ELSE StatusCites(o.status)]

\* api-enhanced.js:55
EnhancedNoRetry(err) == Includes(err, 401) \/ Includes(err, 403)

\* App.jsx:791-792
ApiNoRetry(err) ==
    Includes(err, 401) \/ Includes(err, 403) \/ Includes(err, 400) \/ Includes(err, 404)

\* api-enhanced.js:61, App.jsx:798
BackoffDelay(attempt) == retryDelay * attempt

\* api-enhanced.js:35
ShouldQueue(online, method) == ~online /\ method # "GET"

\* ------------------------------------------------------------ operations
Ops == {"plain", "authenticate", "refreshToken"}

\* A promise that has settled: the continuation of the caller has run and the
\* captured token is gone; what is left is the outcome and the history of
\* the call.
Settled(r, pc) ==
    [r EXCEPT !.pc = pc, !.op = "-", !.token = ""]

\* The catch block of the retry loop (api-enhanced.js:51-63, App.jsx:786-800)
\* followed, when the loop is exhausted, by "throw lastError" (66 / 803).
CatchBlock(r, err, noRetry) ==
    IF noRetry
    THEN Settled([r EXCEPT !.lastError = err], "rejected")
    ELSE IF r.attempt < retryAttempts
    THEN [r EXCEPT !.pc = "backoff", !.lastError = err,
                   !.delays = Append(@, BackoffDelay(r.attempt))]
    ELSE Settled([r EXCEPT !.lastError = err], "rejected")

\* The "return data" left out: the loop goes on after a success.
ReturnData_LoopsOn(r) == CatchBlock(r, NoError, FALSE)

\* api-enhanced.js:49-50, App.jsx:779-784: the parsed body is returned.
ReturnData(r) == Settled(r, "resolved")

\* The error one settled fetch raises in the try block, per service.
ErrorOf(svc, o) == IF svc = "enhanced" THEN EnhancedError(o) ELSE ApiError(o)

NoRetry(svc, err) == IF svc = "enhanced" THEN EnhancedNoRetry(err) ELSE ApiNoRetry(err)

\* What the caller of makeRequest does once the promise settles:
\* authenticate (api-enhanced.js:98-100) installs response.token;
\* refreshToken (114-117, 121-125) installs and stores it, or clears the
\* stored session and the installed token when the call rejected.
\* Every other caller leaves the token and the storage alone.
SessionAfter(op, resolved, token, s) ==
    IF op = "authenticate" /\ resolved /\ token # ""
    THEN [s EXCEPT !.apiKey = token]
    ELSE IF op = "refreshToken" /\ resolved /\ token # ""
    THEN [s EXCEPT !.apiKey = token, !.lsToken = token]
    ELSE IF op = "refreshToken" /\ ~resolved
    THEN [apiKey |-> "", lsToken |-> "", lsUser |-> ""]
    ELSE s

Session == [apiKey |-> apiKey, lsToken |-> lsToken, lsUser |-> lsUser]

SetSession(s) ==
    /\ apiKey' = s.apiKey
    /\ lsToken' = s.lsToken
    /\ lsUser' = s.lsUser

\* ------------------------------------------------------------ AuthProvider
\* The user records a login answer can carry; "" is an absent field.
Users == {"u1"}

\* JSON.stringify of a user record (part_000:81).
JSONstringify(u) == IF u = "u1" THEN "{u1}" ELSE "{u2}"

\* JSON.parse of a stored user (part_000:53).
JSONparse(s) == IF s = "{u1}" THEN "u1" ELSE "u2"

\* What the backend can answer to /api/health and to /api/auth/login: a
\* rejected fetch, a 401, or an ok JSON object with or without a token field
\* and with or without a user field.
AuthOutcomes ==
    {[status |-> NETERR, body |-> "nonjson", token |-> "", user |-> ""]}
    \cup [status : {401}, body : {"msg"}, token : {""}, user : {""}]
    \cup [status : {200}, body : {"data"},
          token : {""} \cup Tokens, user : {""} \cup Users]

\* The values of the error state: null, the three literal messages, and the
\* message of the Error a request threw (cause is that Error; NoError stands
\* for the Error thrown at App.jsx:733 before any fetch).
NoMessage == [text |-> "", cause |-> NoError]
SessionExpired == [text |-> "Session expired. Please log in again.", cause |-> NoError]
InvalidResponse ==
    [text |-> "Invalid response from authentication server", cause |-> NoError]
MessageOf(err) == [text |-> "error.message", cause |-> err]

Auth ==
    [isAuthenticated |-> isAuthenticated, user |-> user, isLoading |-> isLoading,
     error |-> error, apiKey |-> api_apiKey, lsToken |-> lsToken, lsUser |-> lsUser]

SetAuth(a) ==
    /\ isAuthenticated' = a.isAuthenticated
    /\ user' = a.user
    /\ isLoading' = a.isLoading
    /\ error' = a.error
    /\ api_apiKey' = a.apiKey
    /\ lsToken' = a.lsToken
    /\ lsUser' = a.lsUser

\* part_000:40-41 and 73-74.
Begin(a) == [a EXCEPT !.isLoading = TRUE, !.error = NoMessage]

\* checkAuthStatus after "await apiService.testConnection()" (part_000:51-61)
\* and its finally (67).  storedToken and storedUser are the locals read at
\* lines 44-45, before the await.
AfterProbe(a, success, storedToken, storedUser) ==
    IF success
    THEN [a EXCEPT !.isAuthenticated = TRUE, !.user = JSONparse(storedUser),
                   !.apiKey = storedToken, !.isLoading = FALSE]
    ELSE [a EXCEPT !.lsToken = "", !.lsUser = "", !.error = SessionExpired,
                   !.isLoading = FALSE]

\* The token of the answer installed as soon as there is one, as
\* EnhancedAPIService.authenticate does (api-enhanced.js:98-100), before the
\* answer is looked at.
AfterAuthenticate_InstallsAnyToken(a, resolved, token, usr, err) ==
    IF resolved /\ token # "" /\ usr # ""
    THEN [a EXCEPT !.lsToken = token, !.lsUser = JSONstringify(usr),
                   !.apiKey = token, !.isAuthenticated = TRUE, !.user = usr,
                   !.isLoading = FALSE]
    ELSE IF resolved
    THEN [a EXCEPT !.apiKey = IF token # "" THEN token ELSE @,
                   !.error = [text |-> "Invalid response from authentication server",
                              cause |-> NoError],
                   !.isLoading = FALSE]
    ELSE [a EXCEPT !.error = [text |-> "error.message", cause |-> err],
                   !.isLoading = FALSE]

\* Line 84 left out: the token is stored but not handed to apiService.
AfterAuthenticate_NoInstall(a, resolved, token, usr, err) ==
    IF resolved /\ token # "" /\ usr # ""
    THEN [a EXCEPT !.lsToken = token, !.lsUser = JSONstringify(usr),
                   !.isAuthenticated = TRUE, !.user = usr, !.isLoading = FALSE]
    ELSE IF resolved
    THEN [a EXCEPT !.error = [text |-> "Invalid response from authentication server",
                              cause |-> NoError],
                   !.isLoading = FALSE]
    ELSE [a EXCEPT !.error = [text |-> "error.message", cause |-> err],
                   !.isLoading = FALSE]

\* login after "await apiService.authenticate(credentials)" (part_000:78-100).
AfterAuthenticate(a, resolved, token, usr, err) ==
    IF resolved /\ token # "" /\ usr # ""
    THEN [a EXCEPT !.lsToken = token, !.lsUser = JSONstringify(usr),
                   !.apiKey = token, !.isAuthenticated = TRUE, !.user = usr,
                   !.isLoading = FALSE]
    ELSE IF resolved
    THEN [a EXCEPT !.error = InvalidResponse, !.isLoading = FALSE]
    ELSE [a EXCEPT !.error = MessageOf(err), !.isLoading = FALSE]

\* Line 109 left out: the token stays installed after logout.
logout_KeepsToken(a) ==
    [a EXCEPT !.lsToken = "", !.lsUser = "",
              !.isAuthenticated = FALSE, !.user = "", !.error = NoMessage]

\* part_000:103-115.
logout(a) ==
    [a EXCEPT !.lsToken = "", !.lsUser = "", !.apiKey = "",
              !.isAuthenticated = FALSE, !.user = "", !.error = NoMessage]

\* ApiService.request up to its first await (App.jsx:731-752): the record of
\* the invocation.  The headers, and with them the token, are read once, when
\* config is built (738-744).
ApiBegin(op, method) ==
    LET r == [NoCall EXCEPT !.svc = "api", !.op = op, !.method = method,
                            !.token = api_apiKey]
    IN  IF ~api_isOnline
        THEN Settled(r, "rejected")
        ELSE [r EXCEPT !.pc = "fetch", !.attempt = 1, !.fetches = 1]

NoCheck == [pc |-> "done", storedToken |-> "", storedUser |-> ""]

\* What "last" records when an operation of AuthProvider ends: the operation,
\* whether the request it awaited resolved, and the token and user it worked
\* from (the answer's fields for login, the stored values for
\* checkAuthStatus).  The code does not read it.
Ended(op, resolved, token, usr) ==
    [op |-> op, resolved |-> resolved, token |-> token, user |-> usr]

\* No operation has ended since the last one began.
NoEvent == Ended("none", FALSE, "", "")

\* ---------------------------------------------------------------- list reads
\* The default of VITE_API_URL and a deployed backend.
BaseURLs == {"http://localhost:3000", "https://erp.example.com"}

\* this.baseURL.includes('localhost') (App.jsx:812).
IncludesLocalhost(url) == url = "http://localhost:3000"

\* What a list endpoint can answer: a rejected fetch, a 401, or an ok body
\* that is the bare array ("list"), an envelope {success: true, products:
\* [...]} ("envelope_ok") or an envelope {success: false, error: ...}
\* ("envelope_fail").
ListOutcomes ==
    {[status |-> NETERR, body |-> "nonjson", token |-> ""]}
    \cup [status : {401}, body : {"msg"}, token : {""}]
    \cup [status : {200}, body : {"list", "envelope_ok", "envelope_fail"},
          token : {""}]

\* A list read that has not returned.
NoResult == [answer |-> "-", handed |-> "none"]

\* What the caller of a list read holds in the end: the resource list
\* ("list"), the mock records ("mock"), the failure envelope in the place of
\* the list ("envelope"), or a thrown error ("thrown").
\* RESPONSE_MAPPERS (App.jsx:697-702): data.products || data.
ResponseMapper(body) == IF body = "envelope_fail" THEN "envelope" ELSE "list"

\* ApiService.getProducts / getCustomers / getQuotes (App.jsx:807-819,
\* 834-846, 853-865).
ApiListResult(resolved, body, url, key) ==
    IF resolved THEN ResponseMapper(body)
    ELSE IF IncludesLocalhost(url) /\ key = "" THEN "mock"
    ELSE "thrown"

\* EnhancedAPIService.getProducts / getCustomers / getQuotes
\* (api-enhanced.js:143-154, 207-218, 271-282):
\* response.success ? response : { success: true, products: response }.
EnhancedListResult(resolved, body) ==
    IF ~resolved THEN "mock"
    ELSE IF body = "envelope_ok" THEN "list"
    ELSE IF body = "list" THEN "list"
    ELSE "envelope"

\* The head read with requestQueue[0] and left in the queue while its fetch
\* is awaited, where the code shifts it.
processQueue_Peek(q, cs) ==
    IF q = <<>>
    THEN [queue |-> q, call |-> cs]
    ELSE [queue |-> q,
          call |-> [cs EXCEPT ![Head(q)].pc = "replay", ![Head(q)].fetches = @ + 1]]

\* One pass through the head of processQueue's while loop
\* (api-enhanced.js:78-81): if the queue is not empty, shift the oldest entry
\* and call fetch with the url and config stored in it.
processQueue(q, cs) ==
    IF q = <<>>
    THEN [queue |-> q, call |-> cs]
    ELSE [queue |-> Tail(q),
          call |-> [cs EXCEPT ![Head(q)].pc = "replay", ![Head(q)].fetches = @ + 1]]

\* The loop left through the catch: try/catch around the while instead of
\* inside it.
AfterReplayFailure_Abort(q, cs) == [queue |-> q, call |-> cs]

\* An "if" where the "while" is: one entry per drain.
AfterReplaySuccess_Once(q, cs) == [queue |-> q, call |-> cs]

\* api-enhanced.js:84-87: the catch is inside the loop, so after reject(error)
\* the while condition is evaluated again.
AfterReplayFailure(q, cs) == processQueue(q, cs)

\* api-enhanced.js:83, 87: after resolve(data) the loop goes on.
AfterReplaySuccess(q, cs) == processQueue(q, cs)

\* ---------------------------------------------------------------------
\* QuoteCRUD (QuoteCRUD.jsx:19-227): the quote list and its form.

\* The most line items the form is given.
MaxItems == 2

\* What can be typed into a quantity and into a unit price input.
QuantityTexts == {"", "2"}
PriceTexts == {"", "5"}

\* parseInt(e.target.value) || 0 (QuoteCRUD.jsx:417).
ParseQuantity(text) == IF text = "2" THEN 2 ELSE 0

\* parseFloat(e.target.value) || 0 (QuoteCRUD.jsx:429).
ParsePrice(text) == IF text = "5" THEN 5 ELSE 0

\* What can be typed into the title; " " is a title of white space only.
Titles == {"", " ", "Q"}

\* String.prototype.trim on a title.
Trim(text) == IF text = " " THEN "" ELSE text

\* A line item object.
Item(quantity, unitPrice) == [quantity |-> quantity, unitPrice |-> unitPrice]

\* The lists getQuotes can answer with (api-enhanced.js:272-283); a quote's
\* place in its list is its id, and the total of a stored quote need not be
\* the sum of its items.
QuoteLists ==
    { <<[id |-> 1, total |-> 25, lineItems |-> <<Item(2, 10), Item(1, 5)>>]>>,
      <<[id |-> 1, total |-> 99, lineItems |-> <<Item(2, 10)>>]>> }

\* An element of formData.lineItems is a reference to an object: either to
\* the line item `item` of the loaded quote `quote`, or (quote = 0) to an
\* object of the form's own, whose fields the entry then carries.
Own(quantity, unitPrice) ==
    [quote |-> 0, item |-> 0, quantity |-> quantity, unitPrice |-> unitPrice]

Shared(quote, item) == [quote |-> quote, item |-> item, quantity |-> 0, unitPrice |-> 0]

\* The object an element of formData.lineItems refers to.
ItemOf(qs, e) ==
    IF e.quote = 0 THEN Item(e.quantity, e.unitPrice) ELSE qs[e.quote].lineItems[e.item]

\* formData as useState and resetForm leave it (QuoteCRUD.jsx:26-32, 190-196).
EmptyForm == [title |-> "", customerId |-> "", validUntil |-> "", lineItems |-> <<>>]

\* No createQuote / updateQuote is in flight.
NoRequest == [op |-> "none", id |-> 0, total |-> 0, lineItems |-> <<>>]

\* QuoteCRUD.validateForm (QuoteCRUD.jsx:72-93): the keys of `errors`.
validateForm(fd) ==
    (IF Trim(fd.title) = "" THEN {"title"} ELSE {})
    \cup (IF fd.customerId = "" THEN {"customerId"} ELSE {})
    \cup (IF fd.validUntil = "" THEN {"validUntil"} ELSE {})
    \cup (IF Len(fd.lineItems) = 0 THEN {"lineItems"} ELSE {})

\* formData.lineItems.reduce((sum, item) => sum + item.quantity * item.unitPrice, 0)
\* (QuoteCRUD.jsx:110).
RECURSIVE Reduce(_)
Reduce(items) ==
    IF items = <<>> THEN 0
    ELSE Reduce(SubSeq(items, 1, Len(items) - 1))
         + items[Len(items)].quantity * items[Len(items)].unitPrice

\* The total handleSubmit puts in quoteData (QuoteCRUD.jsx:107-111).
TotalOf_Stale(qs, editing, items) ==
    IF editing # 0 THEN qs[editing].total ELSE Reduce(items)

TotalOf(qs, editing, items) == Reduce(items)

\* The browser's constraint validation of the line item inputs, min="1" and
\* min="0" (QuoteCRUD.jsx:415, 427).
ConstraintsValid(items) ==
    \A i \in 1..Len(items) : items[i].quantity >= 1 /\ items[i].unitPrice >= 0

\* QuoteCRUD as useState leaves it (QuoteCRUD.jsx:20-34); its effect has
\* called loadQuotes, which is awaiting getQuotes.
QuoteMounted ==
    /\ quotes = <<>>
    /\ loaded = <<>>
    /\ loading = TRUE
    /\ showForm = FALSE
    /\ editingQuote = 0
    /\ formData = EmptyForm
    /\ formErrors = {}
    /\ submitting = FALSE
    /\ request = NoRequest

\* The components as they are mounted.
\* AnalyticsService as its constructor leaves it (api-enhanced.js:541-569),
\* nothing logged yet.
AnalyticsConstructed ==
    /\ errorQueue = <<>>
    /\ eventQueue = <<>>
    /\ inFlight = {}
    /\ delivered = {}
    /\ logged = <<>>

\* A feed as useState leaves it (QuoteCRUD.jsx:903-906, 1130-1133), its
\* effect having called fetchData.
FeedMounted == [items |-> 0, currentIndex |-> 0, loading |-> TRUE, error |-> FALSE]

UiIdle ==
    /\ visualFeed = FeedMounted
    /\ enhancedVisualFeed = FeedMounted
    /\ analytics_isOnline = TRUE
    /\ AnalyticsConstructed
    /\ view = "quotes"
    /\ QuoteMounted
    /\ products = <<>>
    /\ customers = <<>>
    /\ editingProduct = 0
    /\ editingCustomer = 0

\* AuthProvider as useState leaves it (part_000:28-31), its effect not run yet.
Mounted ==
    /\ isAuthenticated = FALSE
    /\ user = ""
    /\ isLoading = TRUE
    /\ error = NoMessage
    /\ check = [pc |-> "mount", storedToken |-> "", storedUser |-> ""]
    /\ last = NoEvent

\* The id a new invocation gets: the smallest one not used yet.
Fresh(c) ==
    /\ call[c].pc = "unused"
    /\ \A d \in Ids : d < c => call[d].pc # "unused"

Init ==
    /\ isOnline \in BOOLEAN          \* navigator.onLine, api-enhanced.js:9
    /\ api_isOnline = isOnline       \* navigator.onLine, App.jsx:708
    /\ apiKey = ""                   \* VITE_API_KEY || '', api-enhanced.js:5
    /\ requestQueue = <<>>
    /\ lsToken = ""
    /\ lsUser = ""
    /\ call = [c \in Ids |-> NoCall]
    /\ api_apiKey = ""                \* VITE_API_KEY || '', App.jsx:694
    /\ Mounted
    /\ baseURL = "http://localhost:3000"   \* api-enhanced.js:4, App.jsx:693
    /\ result = [c \in Ids |-> NoResult]
    /\ UiIdle

\* window 'online' (api-enhanced.js:12-15, App.jsx:713-716).
GoOnline ==
    /\ ~isOnline
    /\ isOnline' = TRUE
    /\ api_isOnline' = TRUE
    /\ LET marked == [c \in Ids |->
                        IF call[c].pc = "queued"
                        THEN [call[c] EXCEPT !.onlineSince = TRUE] ELSE call[c]]
           next == processQueue(requestQueue, marked)
       IN  /\ requestQueue' = next.queue
           /\ call' = next.call
    /\ UNCHANGED <<apiKey, lsToken, lsUser>>
    /\ UNCHANGED authVars
    /\ UNCHANGED listVars
    /\ UNCHANGED uiVars

\* window 'offline' (api-enhanced.js:17-19, App.jsx:718-721).
GoOffline ==
    /\ isOnline
    /\ isOnline' = FALSE
    /\ api_isOnline' = FALSE
    /\ UNCHANGED <<apiKey, requestQueue, lsToken, lsUser, call>>
    /\ UNCHANGED authVars
    /\ UNCHANGED listVars
    /\ UNCHANGED uiVars

\* EnhancedAPIService.makeRequest up to its first await (api-enhanced.js:23-42).
MakeRequest(c, op, method) ==
    /\ Fresh(c)
    /\ op # "plain" => method = "POST"
    /\ LET r == [NoCall EXCEPT !.svc = "enhanced", !.op = op, !.method = method,
                               !.token = apiKey]
       IN  IF ShouldQueue(isOnline, method)
           THEN /\ call' = [call EXCEPT ![c] = [r EXCEPT !.pc = "queued", !.queued = TRUE]]
                /\ requestQueue' = Append(requestQueue, c)
           ELSE /\ call' = [call EXCEPT ![c] =
                               [r EXCEPT !.pc = "fetch", !.attempt = 1, !.fetches = 1]]
                /\ UNCHANGED requestQueue
    /\ UNCHANGED <<isOnline, api_isOnline, apiKey, lsToken, lsUser>>
    /\ UNCHANGED authVars
    /\ UNCHANGED listVars
    /\ UNCHANGED uiVars

\* ApiService.request up to its first await (App.jsx:731-752).
ApiRequest(c, method) ==
    /\ Fresh(c)
    /\ call' = [call EXCEPT ![c] = ApiBegin("plain", method)]
    /\ UNCHANGED <<isOnline, api_isOnline, apiKey, requestQueue, lsToken, lsUser>>
    /\ UNCHANGED authVars
    /\ UNCHANGED listVars
    /\ UNCHANGED uiVars

\* The continuation of a list read once its request has settled: the body
\* the request resolved with ("-" when it rejected) and what the caller is
\* handed.
ListResult(svc, resolved, body) ==
    [answer |-> IF resolved THEN body ELSE "-",
     handed |-> IF svc = "enhanced" THEN EnhancedListResult(resolved, body)
                ELSE ApiListResult(resolved, body, baseURL, api_apiKey)]

\* A catch that falls back to the mock records, as the reads have it.
WriteResult_FallsBack(resolved, body) ==
    [answer |-> IF resolved THEN body ELSE "-",
     handed |-> IF resolved THEN "response" ELSE "mock"]

\* The continuation of createProduct, updateProduct, deleteProduct and of the
\* customer and quote writes (api-enhanced.js:168-204, 296-344): the answer
\* is returned as it is, an error is wrapped and thrown again.
WriteResult(resolved, body) ==
    [answer |-> IF resolved THEN body ELSE "-",
     handed |-> IF resolved THEN "response" ELSE "thrown"]

\* The fetch of one attempt settles and, if it answered, its body is read:
\* the rest of the loop body (api-enhanced.js:42-63, App.jsx:752-800).
FetchSettles(c, o) ==
    /\ call[c].pc = "fetch"
    /\ LET r == [call[c] EXCEPT
                    !.allTransient = @ /\ (Succeeds(o) \/ Transient(o))]
           err == ErrorOf(r.svc, o)
           after == IF Succeeds(o)
                    THEN ReturnData(r)
                    ELSE CatchBlock(r, err, NoRetry(r.svc, err))
       IN  /\ call' = [call EXCEPT ![c] = after]
           /\ result' = IF r.op = "list" /\ after.pc \in {"resolved", "rejected"}
                        THEN [result EXCEPT ![c] =
                                ListResult(r.svc, after.pc = "resolved", o.body)]
                        ELSE IF r.op = "write" /\ after.pc \in {"resolved", "rejected"}
                        THEN [result EXCEPT ![c] =
                                WriteResult(after.pc = "resolved", o.body)]
                        ELSE result
           /\ IF \/ after.pc \notin {"resolved", "rejected"}
                 \/ r.op \in {"plain", "list", "write"}
              THEN UNCHANGED <<apiKey, lsToken, lsUser>> /\ UNCHANGED authVars
              ELSE IF r.svc = "enhanced"
              THEN /\ SetSession(SessionAfter(r.op, after.pc = "resolved", o.token, Session))
                   /\ UNCHANGED authVars
              ELSE IF r.op = "check"
              THEN /\ SetAuth(AfterProbe(Auth, after.pc = "resolved",
                                         check.storedToken, check.storedUser))
                   /\ check' = NoCheck
                   /\ last' = Ended("check", after.pc = "resolved",
                                    check.storedToken, check.storedUser)
                   /\ UNCHANGED apiKey
              ELSE /\ SetAuth(AfterAuthenticate(Auth, after.pc = "resolved",
                                                o.token, o.user, after.lastError))
                   /\ last' = Ended("login", after.pc = "resolved", o.token, o.user)
                   /\ UNCHANGED <<apiKey, check>>
    /\ UNCHANGED <<isOnline, api_isOnline, requestQueue, baseURL>>
    /\ UNCHANGED uiVars

\* The setTimeout of the backoff fires and the next attempt calls fetch
\* (api-enhanced.js:61, 40-42; App.jsx:798, 748-752).
BackoffElapsed(c) ==
    /\ call[c].pc = "backoff"
    /\ call' = [call EXCEPT ![c].pc = "fetch", ![c].attempt = @ + 1,
                            ![c].fetches = @ + 1]
    /\ UNCHANGED <<isOnline, api_isOnline, apiKey, requestQueue, lsToken, lsUser>>
    /\ UNCHANGED authVars
    /\ UNCHANGED listVars
    /\ UNCHANGED uiVars

\* The try block of processQueue (api-enhanced.js:81-83) reaches resolve(data)
\* when fetch resolves and response.json() parses; response.ok is not read.
ReplayResolves_ChecksOk(o) == Succeeds(o)

ReplayResolves(o) == o.status # NETERR /\ Parseable(o.body)

\* processQueue after its await: the replayed fetch settles and its body is
\* read (api-enhanced.js:81-86), the handle is resolved or rejected, and the
\* while loop takes the next entry.
ReplaySettles(c, o) ==
    /\ call[c].pc = "replay"
    /\ LET ok == ReplayResolves(o)
           err == [status |-> IF o.status = NETERR THEN NETERR ELSE BADJSON,
                   cites |-> {}]
           got == [call[c] EXCEPT !.reply = [status |-> o.status, body |-> o.body]]
           r == IF ok THEN Settled(got, "resolved")
                      ELSE Settled([got EXCEPT !.lastError = err], "rejected")
           cs == [call EXCEPT ![c] = r]
           next == IF ok THEN AfterReplaySuccess(requestQueue, cs)
                         ELSE AfterReplayFailure(requestQueue, cs)
       IN  /\ call' = next.call
           /\ requestQueue' = next.queue
           /\ SetSession(SessionAfter(call[c].op, ok, o.token, Session))
    /\ UNCHANGED <<isOnline, api_isOnline>>
    /\ UNCHANGED authVars
    /\ UNCHANGED listVars
    /\ UNCHANGED uiVars

\* The mount effect (part_000:34-36): checkAuthStatus up to its await, or to
\* its end when it sends no probe.  testConnection -> healthCheck ->
\* request('/api/health') (App.jsx:915-922, 897-904); a request refused
\* because the client is offline makes testConnection answer success: false
\* at once.
CheckAuthStatus(c) ==
    /\ check.pc = "mount"
    /\ Fresh(c)
    /\ LET a == Begin(Auth)
           r == ApiBegin("check", "NONE")
       IN  IF lsToken # "" /\ lsUser # ""
           THEN /\ call' = [call EXCEPT ![c] = r]
                /\ IF r.pc = "rejected"
                   THEN /\ SetAuth(AfterProbe(a, FALSE, lsToken, lsUser))
                        /\ check' = NoCheck
                        /\ last' = Ended("check", FALSE, lsToken, lsUser)
                   ELSE /\ SetAuth(a)
                        /\ check' = [pc |-> "probing", storedToken |-> lsToken,
                                     storedUser |-> lsUser]
                        /\ last' = NoEvent
           ELSE /\ SetAuth([a EXCEPT !.isLoading = FALSE])
                /\ check' = NoCheck
                /\ last' = Ended("check", FALSE, lsToken, lsUser)
                /\ UNCHANGED call
    /\ UNCHANGED <<isOnline, api_isOnline, apiKey, requestQueue>>
    /\ UNCHANGED listVars
    /\ UNCHANGED uiVars

\* login up to its await (part_000:71-76); authenticate is a POST through
\* request (App.jsx:907-912).
Login(c) ==
    /\ check.pc # "mount"
    /\ Fresh(c)
    /\ LET a == Begin(Auth)
           r == ApiBegin("login", "POST")
       IN  /\ call' = [call EXCEPT ![c] = r]
           /\ IF r.pc = "rejected"
              THEN /\ SetAuth(AfterAuthenticate(a, FALSE, "", "", r.lastError))
                   /\ last' = Ended("login", FALSE, "", "")
              ELSE /\ SetAuth(a)
                   /\ last' = NoEvent
    /\ UNCHANGED <<isOnline, api_isOnline, apiKey, requestQueue, check>>
    /\ UNCHANGED listVars
    /\ UNCHANGED uiVars

\* logout (part_000:103-115), from the context value at any time.
Logout ==
    /\ check.pc # "mount"
    /\ SetAuth(logout(Auth))
    /\ last' = Ended("logout", TRUE, "", "")
    /\ UNCHANGED <<isOnline, api_isOnline, apiKey, requestQueue, call, check>>
    /\ UNCHANGED listVars
    /\ UNCHANGED uiVars

\* EnhancedAPIService.getProducts up to its await (api-enhanced.js:143-148):
\* makeRequest(endpoint) without options.  getCustomers and getQuotes are the
\* same text over another endpoint.
getProducts(c) ==
    /\ Fresh(c)
    /\ LET r == [NoCall EXCEPT !.svc = "enhanced", !.op = "list", !.method = "NONE",
                               !.token = apiKey]
       IN  IF ShouldQueue(isOnline, "NONE")
           THEN /\ call' = [call EXCEPT ![c] = [r EXCEPT !.pc = "queued", !.queued = TRUE]]
                /\ requestQueue' = Append(requestQueue, c)
           ELSE /\ call' = [call EXCEPT ![c] =
                               [r EXCEPT !.pc = "fetch", !.attempt = 1, !.fetches = 1]]
                /\ UNCHANGED requestQueue
    /\ UNCHANGED <<isOnline, api_isOnline, apiKey, lsToken, lsUser>>
    /\ UNCHANGED authVars
    /\ UNCHANGED listVars
    /\ UNCHANGED uiVars

\* ApiService.getProducts up to its await (App.jsx:807-808), or to its end
\* when request refuses at once because the client is offline.
api_getProducts(c) ==
    /\ Fresh(c)
    /\ LET r == ApiBegin("list", "NONE")
       IN  /\ call' = [call EXCEPT ![c] = r]
           /\ result' = IF r.pc = "rejected"
                        THEN [result EXCEPT ![c] = ListResult("api", FALSE, "nonjson")]
                        ELSE result
    /\ UNCHANGED <<isOnline, api_isOnline, apiKey, requestQueue, lsToken, lsUser>>
    /\ UNCHANGED authVars
    /\ UNCHANGED baseURL
    /\ UNCHANGED uiVars

\* A write of EnhancedAPIService up to its await: createProduct and
\* createQuote and convertQuoteToOrder with POST, updateProduct and
\* updateQuote with PUT, deleteProduct and deleteQuote with DELETE
\* (api-enhanced.js:168-204, 296-344).
WriteCall(c, method) ==
    /\ Fresh(c)
    /\ method \in Mutations
    /\ LET r == [NoCall EXCEPT !.svc = "enhanced", !.op = "write", !.method = method,
                               !.token = apiKey]
       IN  IF ShouldQueue(isOnline, method)
           THEN /\ call' = [call EXCEPT ![c] = [r EXCEPT !.pc = "queued", !.queued = TRUE]]
                /\ requestQueue' = Append(requestQueue, c)
           ELSE /\ call' = [call EXCEPT ![c] =
                               [r EXCEPT !.pc = "fetch", !.attempt = 1, !.fetches = 1]]
                /\ UNCHANGED requestQueue
    /\ UNCHANGED <<isOnline, api_isOnline, apiKey, lsToken, lsUser>>
    /\ UNCHANGED authVars
    /\ UNCHANGED listVars
    /\ UNCHANGED uiVars

\* ---------------------------------------------------------------------
\* QuoteCRUD's handlers.  The form is rendered while showForm holds and the
\* component is not showing its spinner (QuoteCRUD.jsx:229, 280).

\* The "Create Quote" button (QuoteCRUD.jsx:244-247).
CreateQuoteButton ==
    /\ view = "quotes"
    /\ ~loading
    /\ showForm' = TRUE
    /\ UNCHANGED <<quotes, loaded, loading, editingQuote, formData, formErrors,
                   submitting, request>>
    /\ UNCHANGED <<otherForms, outsideForms>>

\* QuoteCRUD.handleEdit (QuoteCRUD.jsx:138-149): lineItems: quote.lineItems
\* hands the form the quote's own line item objects.
handleEdit(q) ==
    /\ view = "quotes"
    /\ ~loading
    /\ q \in 1..Len(quotes)
    /\ editingQuote' = q
    /\ formData' = [title |-> "Q", customerId |-> "7", validUntil |-> "2026-01-01",
                    lineItems |-> [i \in 1..Len(quotes[q].lineItems) |-> Shared(q, i)]]
    /\ showForm' = TRUE
    /\ UNCHANGED <<quotes, loaded, loading, formErrors, submitting, request>>
    /\ UNCHANGED <<otherForms, outsideForms>>

\* QuoteCRUD.handleInputChange (QuoteCRUD.jsx:202-208).
handleInputChange(field, value) ==
    /\ showForm /\ ~loading
    /\ formData' = [formData EXCEPT ![field] = value]
    /\ formErrors' = formErrors \ {field}
    /\ UNCHANGED <<quotes, loaded, loading, showForm, editingQuote, submitting, request>>
    /\ UNCHANGED <<otherForms, outsideForms>>

\* QuoteCRUD.handleLineItemChange (QuoteCRUD.jsx:210-214): the array is
\* copied, the object at `index` is written in place.
handleLineItemChange(index, field, value) ==
    /\ view = "quotes"
    /\ showForm /\ ~loading
    /\ index \in 1..Len(formData.lineItems)
    /\ LET e == formData.lineItems[index]
       IN  IF e.quote = 0
           THEN /\ formData' = [formData EXCEPT !.lineItems[index][field] = value]
                /\ UNCHANGED quotes
           ELSE /\ quotes' = [quotes EXCEPT ![e.quote].lineItems[e.item][field] = value]
                /\ UNCHANGED formData
    /\ UNCHANGED <<loaded, loading, showForm, editingQuote, formErrors, submitting, request>>
    /\ UNCHANGED <<otherForms, outsideForms>>

\* QuoteCRUD.addLineItem (QuoteCRUD.jsx:216-221).
addLineItem ==
    /\ view = "quotes"
    /\ showForm /\ ~loading
    /\ Len(formData.lineItems) < MaxItems
    /\ formData' = [formData EXCEPT !.lineItems = Append(@, Own(1, 0))]
    /\ UNCHANGED <<quotes, loaded, loading, showForm, editingQuote, formErrors,
                   submitting, request>>
    /\ UNCHANGED <<otherForms, outsideForms>>

\* QuoteCRUD.removeLineItem (QuoteCRUD.jsx:223-227).
removeLineItem(index) ==
    /\ view = "quotes"
    /\ showForm /\ ~loading
    /\ index \in 1..Len(formData.lineItems)
    /\ formData' = [formData EXCEPT !.lineItems =
                       SubSeq(@, 1, index - 1) \o SubSeq(@, index + 1, Len(@))]
    /\ UNCHANGED <<quotes, loaded, loading, showForm, editingQuote, formErrors,
                   submitting, request>>
    /\ UNCHANGED <<otherForms, outsideForms>>

\* QuoteCRUD.resetForm (QuoteCRUD.jsx:189-200).
resetForm ==
    /\ formData' = EmptyForm
    /\ formErrors' = {}
    /\ editingQuote' = 0
    /\ showForm' = FALSE

\* The form's X and Cancel buttons (QuoteCRUD.jsx:294, 451).
Cancel ==
    /\ view = "quotes"
    /\ showForm /\ ~loading
    /\ resetForm
    /\ UNCHANGED <<quotes, loaded, loading, submitting, request>>
    /\ UNCHANGED <<otherForms, outsideForms>>

\* QuoteCRUD.handleSubmit up to its await (QuoteCRUD.jsx:95-119).  `checked`
\* tells whether the submit event comes from the browser's interactive
\* submission, which delivers it only when the inputs' constraints hold;
\* the submit button is disabled while submitting (QuoteCRUD.jsx:459-461).
handleSubmit(checked) ==
    /\ view = "quotes"
    /\ showForm /\ ~loading /\ ~submitting
    /\ LET items == [i \in 1..Len(formData.lineItems) |->
                        ItemOf(quotes, formData.lineItems[i])]
           errors == validateForm(formData)
       IN  /\ checked => ConstraintsValid(items)
           /\ formErrors' = errors
           /\ IF errors # {}
              THEN UNCHANGED <<submitting, request>>
              ELSE /\ submitting' = TRUE
                   /\ request' = [op |-> IF editingQuote # 0 THEN "updateQuote"
                                         ELSE "createQuote",
                                  id |-> editingQuote,
                                  total |-> TotalOf(quotes, editingQuote, items),
                                  lineItems |-> items]
    /\ UNCHANGED <<quotes, loaded, loading, showForm, editingQuote, formData>>
    /\ UNCHANGED <<otherForms, outsideForms>>

\* handleSubmit once createQuote / updateQuote has settled
\* (QuoteCRUD.jsx:121-135): on success loadQuotes starts (QuoteCRUD.jsx:41-44).
SaveSettles(outcome) ==
    /\ submitting /\ ~loading
    /\ IF outcome = "success"
       THEN loading' = TRUE /\ UNCHANGED submitting
       ELSE submitting' = FALSE /\ UNCHANGED loading
    /\ request' = NoRequest
    /\ UNCHANGED <<quotes, loaded, showForm, editingQuote, formData, formErrors>>
    /\ UNCHANGED <<otherForms, outsideForms>>

\* loadQuotes once getQuotes has settled (QuoteCRUD.jsx:44-55), and, when
\* handleSubmit was awaiting it, the rest of handleSubmit
\* (QuoteCRUD.jsx:123-135).
QuotesLoaded(success, list) ==
    /\ view = "quotes"
    /\ loading
    /\ loading' = FALSE
    /\ IF success
       THEN quotes' = list /\ loaded' = list
       ELSE UNCHANGED <<quotes, loaded>>
    /\ IF submitting
       THEN resetForm /\ submitting' = FALSE
       ELSE UNCHANGED <<formData, formErrors, editingQuote, showForm, submitting>>
    /\ UNCHANGED request
    /\ UNCHANGED <<otherForms, outsideForms>>

\* ---------------------------------------------------------------------
\* InventoryCRUD (ActionMenu.jsx:316-487): the product list and its form.

\* The list getProducts answers with.
ProductList == <<[id |-> 1, sku |-> "A"], [id |-> 2, sku |-> "B"]>>

\* What can be typed into the name, the SKU and the three number inputs.
Names == {"", " ", "N"}
Skus == {"", "A", "B", "C"}
PriceInputs == {"", "0", "9"}
CostInputs == {"", "-1", "0"}
StockInputs == {"", "-1", "3"}

\* parseFloat / parseInt of a text of the number inputs.
ParseNumber(text) ==
    IF text = "-1" THEN -1 ELSE IF text = "0" THEN 0 ELSE IF text = "3" THEN 3 ELSE 9

\* formData as useState and resetForm leave it (ActionMenu.jsx:322-331).
EmptyProductForm == [name |-> "", sku |-> "", price |-> "", cost |-> "", stockOnHand |-> ""]

\* The duplicate test of InventoryCRUD.validateForm (ActionMenu.jsx:366).
SkuExists(ps, sku, editing) ==
    \E i \in 1..Len(ps) : ps[i].sku = sku /\ ps[i].id # editing

\* InventoryCRUD.validateForm (ActionMenu.jsx:357-385): the keys of `errors`.
Inventory_validateForm_NoSkuTest(fd, ps, editing) ==
    (IF Trim(fd.name) = "" THEN {"name"} ELSE {})
    \cup (IF Trim(fd.sku) = "" THEN {"sku"} ELSE {})
    \cup (IF fd.price = "" \/ ParseNumber(fd.price) <= 0 THEN {"price"} ELSE {})
    \cup (IF fd.cost = "" \/ ParseNumber(fd.cost) < 0 THEN {"cost"} ELSE {})
    \cup (IF fd.stockOnHand = "" \/ ParseNumber(fd.stockOnHand) < 0
          THEN {"stockOnHand"} ELSE {})

Inventory_validateForm(fd, ps, editing) ==
    (IF Trim(fd.name) = "" THEN {"name"} ELSE {})
    \cup (IF Trim(fd.sku) = "" \/ SkuExists(ps, fd.sku, editing) THEN {"sku"} ELSE {})
    \cup (IF fd.price = "" \/ ParseNumber(fd.price) <= 0 THEN {"price"} ELSE {})
    \cup (IF fd.cost = "" \/ ParseNumber(fd.cost) < 0 THEN {"cost"} ELSE {})
    \cup (IF fd.stockOnHand = "" \/ ParseNumber(fd.stockOnHand) < 0
          THEN {"stockOnHand"} ELSE {})

\* loadProducts once getProducts has settled (ActionMenu.jsx:339-354), and,
\* when handleSubmit was awaiting it, the rest of handleSubmit (421-435).
ProductsLoaded(success) ==
    /\ view = "products"
    /\ loading
    /\ loading' = FALSE
    /\ products' = IF success THEN ProductList ELSE products
    /\ IF submitting
       THEN /\ formData' = EmptyProductForm
            /\ formErrors' = {}
            /\ editingProduct' = 0
            /\ showForm' = FALSE
            /\ submitting' = FALSE
       ELSE UNCHANGED <<formData, formErrors, editingProduct, showForm, submitting>>
    /\ UNCHANGED <<view, quotes, loaded, customers, editingQuote, editingCustomer, request>>
    /\ UNCHANGED outsideForms

\* The "Add Product" button (ActionMenu.jsx:507-510).
AddProductButton ==
    /\ view = "products"
    /\ ~loading
    /\ showForm' = TRUE
    /\ UNCHANGED <<view, quotes, loaded, products, customers, editingProduct,
                   editingCustomer, loading, editingQuote, formData, formErrors,
                   submitting, request>>
    /\ UNCHANGED outsideForms

\* InventoryCRUD.handleEdit (ActionMenu.jsx:429-444).
Inventory_handleEdit(p) ==
    /\ view = "products"
    /\ ~loading
    /\ p \in 1..Len(products)
    /\ editingProduct' = products[p].id
    /\ formData' = [name |-> "N", sku |-> products[p].sku, price |-> "9",
                    cost |-> "0", stockOnHand |-> "3"]
    /\ showForm' = TRUE
    /\ UNCHANGED <<view, quotes, loaded, products, customers, editingCustomer, loading,
                   editingQuote, formErrors, submitting, request>>
    /\ UNCHANGED outsideForms

\* InventoryCRUD.resetForm from the form's X and Cancel buttons
\* (ActionMenu.jsx:465-479, 555, 726).
Inventory_Cancel ==
    /\ view = "products"
    /\ showForm /\ ~loading
    /\ formData' = EmptyProductForm
    /\ formErrors' = {}
    /\ editingProduct' = 0
    /\ showForm' = FALSE
    /\ UNCHANGED <<view, quotes, loaded, products, customers, editingCustomer, loading,
                   editingQuote, submitting, request>>
    /\ UNCHANGED outsideForms

\* InventoryCRUD.handleSubmit up to its await (ActionMenu.jsx:387-410).
Inventory_handleSubmit ==
    /\ view = "products"
    /\ showForm /\ ~loading /\ ~submitting
    /\ LET errors == Inventory_validateForm(formData, products, editingProduct)
       IN  /\ formErrors' = errors
           /\ IF errors # {}
              THEN UNCHANGED <<submitting, request>>
              ELSE /\ submitting' = TRUE
                   /\ request' = [NoRequest EXCEPT
                                     !.op = IF editingProduct # 0 THEN "updateProduct"
                                            ELSE "createProduct",
                                     !.id = editingProduct]
    /\ UNCHANGED <<view, quotes, loaded, products, customers, editingProduct,
                   editingCustomer, loading, showForm, editingQuote, formData>>
    /\ UNCHANGED outsideForms

\* ---------------------------------------------------------------------
\* CustomerCRUD (README.md:151-305): the customer list and its form.

\* The list getCustomers answers with; email is optional in a stored customer.
CustomerList == <<[id |-> 1, email |-> "a@b.co"], [id |-> 2, email |-> ""]>>

\* What can be typed into the email input.
Emails == {"", "bad", "a@b.co"}

\* /^[\w-.]+@([\w-]+\.)+[\w-]{2,4}$/.test(email) (README.md:203).
EmailMatches(email) == email = "a@b.co"

\* formData as useState and resetForm leave it (README.md:157-165).
EmptyCustomerForm == [companyName |-> "", contactName |-> "", email |-> ""]

\* CustomerCRUD.validateForm (README.md:190-209): the keys of `errors`.
Customer_validateForm(fd) ==
    (IF Trim(fd.companyName) = "" THEN {"companyName"} ELSE {})
    \cup (IF Trim(fd.contactName) = "" THEN {"contactName"} ELSE {})
    \cup (IF Trim(fd.email) = "" \/ ~EmailMatches(fd.email) THEN {"email"} ELSE {})

\* loadCustomers once getCustomers has settled (README.md:172-187), and,
\* when handleSubmit was awaiting it, the rest of handleSubmit (231-245).
CustomersLoaded(success) ==
    /\ view = "customers"
    /\ loading
    /\ loading' = FALSE
    /\ customers' = IF success THEN CustomerList ELSE customers
    /\ IF submitting
       THEN /\ formData' = EmptyCustomerForm
            /\ formErrors' = {}
            /\ editingCustomer' = 0
            /\ showForm' = FALSE
            /\ submitting' = FALSE
       ELSE UNCHANGED <<formData, formErrors, editingCustomer, showForm, submitting>>
    /\ UNCHANGED <<view, quotes, loaded, products, editingQuote, editingProduct, request>>
    /\ UNCHANGED outsideForms

\* The "Add Customer" button (README.md:323-326).
AddCustomerButton ==
    /\ view = "customers"
    /\ ~loading
    /\ showForm' = TRUE
    /\ UNCHANGED <<view, quotes, loaded, products, customers, editingProduct,
                   editingCustomer, loading, editingQuote, formData, formErrors,
                   submitting, request>>
    /\ UNCHANGED outsideForms

\* CustomerCRUD.handleEdit (README.md:248-261).
Customer_handleEdit(c) ==
    /\ view = "customers"
    /\ ~loading
    /\ c \in 1..Len(customers)
    /\ editingCustomer' = customers[c].id
    /\ formData' = [companyName |-> "N", contactName |-> "N", email |-> customers[c].email]
    /\ showForm' = TRUE
    /\ UNCHANGED <<view, quotes, loaded, products, customers, editingProduct, loading,
                   editingQuote, formErrors, submitting, request>>
    /\ UNCHANGED outsideForms

\* CustomerCRUD.resetForm from the form's X and Cancel buttons
\* (README.md:281-294, 371, 511).
Customer_Cancel ==
    /\ view = "customers"
    /\ showForm /\ ~loading
    /\ formData' = EmptyCustomerForm
    /\ formErrors' = {}
    /\ editingCustomer' = 0
    /\ showForm' = FALSE
    /\ UNCHANGED <<view, quotes, loaded, products, customers, editingProduct, loading,
                   editingQuote, submitting, request>>
    /\ UNCHANGED outsideForms

\* CustomerCRUD.handleSubmit up to its await (README.md:211-228).
Customer_handleSubmit ==
    /\ view = "customers"
    /\ showForm /\ ~loading /\ ~submitting
    /\ LET errors == Customer_validateForm(formData)
       IN  /\ formErrors' = errors
           /\ IF errors # {}
              THEN UNCHANGED <<submitting, request>>
              ELSE /\ submitting' = TRUE
                   /\ request' = [NoRequest EXCEPT
                                     !.op = IF editingCustomer # 0 THEN "updateCustomer"
                                            ELSE "createCustomer",
                                     !.id = editingCustomer]
    /\ UNCHANGED <<view, quotes, loaded, products, customers, editingProduct,
                   editingCustomer, loading, showForm, editingQuote, formData>>
    /\ UNCHANGED outsideForms

\* ---------------------------------------------------------------------
\* AnalyticsService (api-enhanced.js:540-897) in a production build with
\* VITE_API_URL set, where sendData awaits fetch and throws on a refused
\* fetch and on a status that is not ok.  Items are numbered as they are
\* logged.

\* The most items logged.
MaxLogged == 3

\* flushErrorQueue / flushEventQueue up to the await (api-enhanced.js:836-843,
\* 851-858): nothing for an empty queue, else the queue is copied into a
\* batch and emptied, and sendData is called with the batch.
Flush(kind, queue, flying) ==
    IF queue = <<>>
    THEN [queue |-> queue, flying |-> flying]
    ELSE [queue |-> <<>>, flying |-> flying \cup {[kind |-> kind, items |-> queue]}]

\* The catch of a flush (api-enhanced.js:844-847): queue.unshift(...batch).
Requeue(batch, queue) == batch \o queue

\* The constructor's 'online' and 'offline' listeners (api-enhanced.js:556-563)
\* and flushQueues (826-834).
Analytics_GoOnline ==
    /\ ~analytics_isOnline
    /\ analytics_isOnline' = TRUE
    /\ LET e == Flush("error", errorQueue, inFlight)
           v == Flush("event", eventQueue, e.flying)
       IN  /\ errorQueue' = e.queue
           /\ eventQueue' = v.queue
           /\ inFlight' = v.flying
    /\ UNCHANGED <<delivered, logged>>
    /\ UNCHANGED <<serviceVars, quoteVars, otherForms, feedVars>>

Analytics_GoOffline ==
    /\ analytics_isOnline
    /\ analytics_isOnline' = FALSE
    /\ UNCHANGED <<errorQueue, eventQueue, inFlight, delivered, logged>>
    /\ UNCHANGED <<serviceVars, quoteVars, otherForms, feedVars>>

\* AnalyticsService.logError (api-enhanced.js:617-640).
logError ==
    /\ Len(logged) < MaxLogged
    /\ logged' = Append(logged, "error")
    /\ LET pushed == Append(errorQueue, Len(logged) + 1)
           f == IF analytics_isOnline THEN Flush("error", pushed, inFlight)
                ELSE [queue |-> pushed, flying |-> inFlight]
       IN  /\ errorQueue' = f.queue
           /\ inFlight' = f.flying
    /\ UNCHANGED <<analytics_isOnline, eventQueue, delivered>>
    /\ UNCHANGED <<serviceVars, quoteVars, otherForms, feedVars>>

\* AnalyticsService.trackEvent (api-enhanced.js:731-756).
trackEvent ==
    /\ Len(logged) < MaxLogged
    /\ logged' = Append(logged, "event")
    /\ LET pushed == Append(eventQueue, Len(logged) + 1)
           f == IF analytics_isOnline THEN Flush("event", pushed, inFlight)
                ELSE [queue |-> pushed, flying |-> inFlight]
       IN  /\ eventQueue' = f.queue
           /\ inFlight' = f.flying
    /\ UNCHANGED <<analytics_isOnline, errorQueue, delivered>>
    /\ UNCHANGED <<serviceVars, quoteVars, otherForms, feedVars>>

\* A flush once sendData has settled (api-enhanced.js:843-848, 858-863).
SendSettles(b, sent) ==
    /\ b \in inFlight
    /\ inFlight' = inFlight \ {b}
    /\ IF sent
       THEN /\ delivered' = delivered \cup {b.items[i] : i \in 1..Len(b.items)}
            /\ UNCHANGED <<errorQueue, eventQueue>>
       ELSE /\ errorQueue' = IF b.kind = "error" THEN Requeue(b.items, errorQueue)
                             ELSE errorQueue
            /\ eventQueue' = IF b.kind = "event" THEN Requeue(b.items, eventQueue)
                             ELSE eventQueue
            /\ UNCHANGED delivered
    /\ UNCHANGED <<analytics_isOnline, logged>>
    /\ UNCHANGED <<serviceVars, quoteVars, otherForms, feedVars>>

\* ---------------------------------------------------------------------
\* EnhancedVisualFeed (QuoteCRUD.jsx:1128-1214), the VisualFeed it renders
\* (901-1091) and the keys of AccessibilityLayer (AccessibilityLayer.jsx:52-101).
\* Each of the two components holds items, loading, error and currentIndex
\* of its own and fetches for itself.

\* The most items a fetch answers with.
MaxFeedItems == 3

\* What the other parts of the model leave alone in a step of a feed.
outsideFeed == <<serviceVars, quoteVars, otherForms, analyticsVars>>

\* fetchData up to its await (QuoteCRUD.jsx:912-915, 1139-1142).
FetchStarted(f) == [f EXCEPT !.loading = TRUE, !.error = FALSE]

\* fetchData after its await: the items are set and currentIndex is reset
\* (QuoteCRUD.jsx:932-938, 1156-1160).
FetchResolved(f, n) == [f EXCEPT !.items = n, !.currentIndex = 0, !.loading = FALSE]

\* fetchData's catch (QuoteCRUD.jsx:939-945, 1161-1167): currentIndex stays.
FetchRejected(f) == [f EXCEPT !.items = 0, !.error = TRUE, !.loading = FALSE]

\* VisualFeed renders its card, buttons and dots (QuoteCRUD.jsx:969-998).
ShowsCard(f) == ~f.loading /\ ~f.error /\ f.items > 0

\* The route's module changes: the effect of both components calls fetchData
\* (QuoteCRUD.jsx:908-910, 1135-1137).
ModuleChanged ==
    /\ ~visualFeed.loading /\ ~enhancedVisualFeed.loading
    /\ visualFeed' = FetchStarted(visualFeed)
    /\ enhancedVisualFeed' = FetchStarted(enhancedVisualFeed)
    /\ UNCHANGED outsideFeed

\* VisualFeed's "Refresh Data" and retry buttons (QuoteCRUD.jsx:982, 992-997).
VisualFeed_Retry ==
    /\ ~visualFeed.loading
    /\ visualFeed.error \/ visualFeed.items = 0
    /\ visualFeed' = FetchStarted(visualFeed)
    /\ UNCHANGED enhancedVisualFeed
    /\ UNCHANGED outsideFeed

VisualFeed_FetchSettles(resolved, n) ==
    /\ visualFeed.loading
    /\ visualFeed' = IF resolved THEN FetchResolved(visualFeed, n)
                     ELSE FetchRejected(visualFeed)
    /\ UNCHANGED enhancedVisualFeed
    /\ UNCHANGED outsideFeed

Enhanced_FetchSettles(resolved, n) ==
    /\ enhancedVisualFeed.loading
    /\ enhancedVisualFeed' = IF resolved THEN FetchResolved(enhancedVisualFeed, n)
                             ELSE FetchRejected(enhancedVisualFeed)
    /\ UNCHANGED visualFeed
    /\ UNCHANGED outsideFeed

\* VisualFeed.nextItem (QuoteCRUD.jsx:953-955); the button is disabled for
\* one item (1046).
nextItem ==
    /\ ShowsCard(visualFeed) /\ visualFeed.items > 1
    /\ visualFeed' = [visualFeed EXCEPT !.currentIndex = (@ + 1) % visualFeed.items]
    /\ UNCHANGED enhancedVisualFeed
    /\ UNCHANGED outsideFeed

\* VisualFeed.prevItem (QuoteCRUD.jsx:957-959).
prevItem ==
    /\ ShowsCard(visualFeed) /\ visualFeed.items > 1
    /\ visualFeed' = [visualFeed EXCEPT
                         !.currentIndex = (@ - 1 + visualFeed.items) % visualFeed.items]
    /\ UNCHANGED enhancedVisualFeed
    /\ UNCHANGED outsideFeed

\* A navigation dot (QuoteCRUD.jsx:1062-1078).
Dot(index) ==
    /\ ShowsCard(visualFeed) /\ visualFeed.items > 1
    /\ index \in 0..(visualFeed.items - 1)
    /\ visualFeed' = [visualFeed EXCEPT !.currentIndex = index]
    /\ UNCHANGED enhancedVisualFeed
    /\ UNCHANGED outsideFeed

\* EnhancedVisualFeed.handleNavigate (QuoteCRUD.jsx:1175-1189).
handleNavigate(f, direction) ==
    IF direction = "prev"
    THEN [f EXCEPT !.currentIndex = IF @ - 1 > 0 THEN @ - 1 ELSE 0]
    ELSE IF direction = "next"
    THEN [f EXCEPT !.currentIndex = IF @ + 1 < f.items - 1 THEN @ + 1 ELSE f.items - 1]
    ELSE IF direction = "first"
    THEN [f EXCEPT !.currentIndex = 0]
    ELSE [f EXCEPT !.currentIndex = f.items - 1]

\* AccessibilityLayer's keydown listener (AccessibilityLayer.jsx:52-101); the
\* layer is rendered while EnhancedVisualFeed has items (QuoteCRUD.jsx:1203).
handleKeyDown(code) ==
    /\ enhancedVisualFeed.items > 0
    /\ LET f == enhancedVisualFeed
       IN  enhancedVisualFeed' =
             IF code = "ArrowLeft"
             THEN (IF f.currentIndex > 0 THEN handleNavigate(f, "prev") ELSE f)
             ELSE IF code = "ArrowRight"
             THEN (IF f.currentIndex < f.items - 1 THEN handleNavigate(f, "next") ELSE f)
             ELSE IF code = "Home" THEN handleNavigate(f, "first")
             ELSE handleNavigate(f, "last")
    /\ UNCHANGED visualFeed
    /\ UNCHANGED outsideFeed

\* ---------------------------------------------------------- specifications
\* The answers drawn where the connectivity and the queue are explored: a
\* rejected fetch, an ok answer, an ok answer carrying a token.
QueueOutcomes ==
    {o \in Outcomes : o.status = NETERR \/ (o.status = 200 /\ o.body = "data")}

\* EnhancedAPIService with its connectivity events and its queue.
Next ==
    \/ GoOnline
    \/ GoOffline
    \/ \E c \in Ids, op \in Ops, m \in Methods : MakeRequest(c, op, m)
    \/ \E c \in Ids, o \in QueueOutcomes : FetchSettles(c, o)
    \/ \E c \in Ids : BackoffElapsed(c)
    \/ \E c \in Ids, o \in QueueOutcomes : ReplaySettles(c, o)

Spec == Init /\ [][Next]_vars

\* The same for reads and writes that leave the token alone, every replayed
\* fetch eventually settling: the browser ends each fetch with an answer or
\* with an error.
LiveOutcomes == {o \in QueueOutcomes : o.token = ""}

FairNext ==
    \/ GoOnline
    \/ GoOffline
    \/ \E c \in Ids, m \in {"GET", "POST"} : MakeRequest(c, "plain", m)
    \/ \E c \in Ids, o \in LiveOutcomes : FetchSettles(c, o)
    \/ \E c \in Ids : BackoffElapsed(c)
    \/ \E c \in Ids, o \in LiveOutcomes : ReplaySettles(c, o)

FairSpec ==
    /\ Init
    /\ [][FairNext]_vars
    /\ \A c \in Ids : WF_vars(\E o \in LiveOutcomes : ReplaySettles(c, o))

\* The retry loops of both services under every answer of the backend, with
\* the connectivity fixed as the page found it.
RetryIds == 1..MaxRetryCalls

RetryNext ==
    \/ \E c \in RetryIds, m \in {"NONE", "GET", "POST"} : MakeRequest(c, "plain", m)
    \/ \E c \in RetryIds, m \in {"NONE", "POST"} : ApiRequest(c, m)
    \/ \E c \in RetryIds, o \in Outcomes : FetchSettles(c, o)
    \/ \E c \in RetryIds : BackoffElapsed(c)

RetrySpec == Init /\ [][RetryNext]_vars

\* AuthProvider over ApiService.  The page finds in localStorage what an
\* earlier page left there: nothing, the token and the user written by login
\* (part_000:80-81), or a token alone written by refreshToken
\* (api-enhanced.js:116).  VITE_API_KEY is unset or holds a key.
StoredSessions ==
    {<<"", "">>}
    \cup {<<t, JSONstringify(u)>> : t \in Tokens, u \in Users}
    \cup {<<t, "">> : t \in Tokens}

AuthInit ==
    /\ isOnline \in BOOLEAN
    /\ api_isOnline = isOnline
    /\ apiKey \in {""} \cup Tokens
    /\ api_apiKey = apiKey
    /\ requestQueue = <<>>
    /\ \E s \in StoredSessions : lsToken = s[1] /\ lsUser = s[2]
    /\ call = [c \in Ids |-> NoCall]
    /\ Mounted
    /\ baseURL = "http://localhost:3000"   \* not read by AuthProvider
    /\ result = [c \in Ids |-> NoResult]
    /\ UiIdle

AuthNext ==
    \/ \E c \in Ids : CheckAuthStatus(c)
    \/ \E c \in Ids : Login(c)
    \/ Logout
    \/ \E c \in Ids, o \in AuthOutcomes : FetchSettles(c, o)
    \/ \E c \in Ids : BackoffElapsed(c)

AuthSpec == AuthInit /\ [][AuthNext]_vars

\* The list reads of both services, for either backend address and with or
\* without a configured key.
ListInit ==
    /\ isOnline \in BOOLEAN
    /\ api_isOnline = isOnline
    /\ apiKey \in {""} \cup Tokens
    /\ api_apiKey = apiKey
    /\ requestQueue = <<>>
    /\ lsToken = ""
    /\ lsUser = ""
    /\ call = [c \in Ids |-> NoCall]
    /\ Mounted
    /\ baseURL \in BaseURLs
    /\ result = [c \in Ids |-> NoResult]
    /\ UiIdle

ListNext ==
    \/ \E c \in Ids : getProducts(c)
    \/ \E c \in Ids : api_getProducts(c)
    \/ \E c \in Ids, o \in ListOutcomes : FetchSettles(c, o)
    \/ \E c \in Ids : BackoffElapsed(c)

ListSpec == ListInit /\ [][ListNext]_vars

\* The writes of EnhancedAPIService, in the configurations of the list reads.
WriteNext ==
    \/ \E c \in Ids, m \in Mutations : WriteCall(c, m)
    \/ \E c \in Ids, o \in ListOutcomes : FetchSettles(c, o)
    \/ \E c \in Ids : BackoffElapsed(c)

WriteSpec == ListInit /\ [][WriteNext]_vars

\* QuoteCRUD alone, the services online and untouched.
QuoteInit == Init /\ isOnline

\* Waiting: between a submit that sent a request and the end of that submit
\* the user leaves the list and the form alone.  The required fields are
\* only filled in here; ValidationSpec below empties them too.
QuoteNext ==
    \/ ~submitting /\ CreateQuoteButton
    \/ ~submitting /\ \E q \in 1..Len(quotes) : handleEdit(q)
    \/ ~submitting /\ handleInputChange("title", "Q")
    \/ ~submitting /\ handleInputChange("customerId", "7")
    \/ ~submitting /\ handleInputChange("validUntil", "2026-01-01")
    \/ ~submitting /\ \E i \in 1..MaxItems, t \in QuantityTexts :
                         handleLineItemChange(i, "quantity", ParseQuantity(t))
    \/ ~submitting /\ \E i \in 1..MaxItems, t \in PriceTexts :
                         handleLineItemChange(i, "unitPrice", ParsePrice(t))
    \/ ~submitting /\ addLineItem
    \/ ~submitting /\ \E i \in 1..MaxItems : removeLineItem(i)
    \/ ~submitting /\ Cancel
    \/ \E checked \in BOOLEAN : handleSubmit(checked)
    \/ \E outcome \in {"success", "failure", "thrown"} : SaveSettles(outcome)
    \/ \E list \in QuoteLists : QuotesLoaded(TRUE, list)
    \/ QuotesLoaded(FALSE, <<>>)

QuoteSpec == QuoteInit /\ [][QuoteNext]_vars

\* The queue and the direct path side by side, both answered with every
\* kind of response: refused, ok, 4xx and 5xx, with and without a JSON body.
\* The client starts offline or online and comes online once.
ReplayOutcomes ==
    {o \in Outcomes : o.token = "" /\ (\/ o.status = NETERR
                                      \/ (o.status \in {404, 500} /\ o.body = "msg")
                                      \/ (o.status = 200 /\ o.body \in {"msg", "nonjson"}))}

ReplayNext ==
    \/ GoOnline
    \/ \E c \in Ids, m \in {"GET", "POST"} : MakeRequest(c, "plain", m)
    \/ \E c \in Ids, o \in ReplayOutcomes : FetchSettles(c, o)
    \/ \E c \in Ids : BackoffElapsed(c)
    \/ \E c \in Ids, o \in ReplayOutcomes : ReplaySettles(c, o)

ReplaySpec == Init /\ [][ReplayNext]_vars

\* AnalyticsService alone.
AnalyticsNext ==
    \/ Analytics_GoOnline
    \/ Analytics_GoOffline
    \/ logError
    \/ trackEvent
    \/ \E b \in inFlight, sent \in BOOLEAN : SendSettles(b, sent)

AnalyticsInit == Init /\ isOnline

AnalyticsSpec == AnalyticsInit /\ [][AnalyticsNext]_vars

\* EnhancedVisualFeed with its VisualFeed and its AccessibilityLayer.
FeedNext ==
    \/ ModuleChanged
    \/ VisualFeed_Retry
    \/ \E n \in 0..MaxFeedItems : VisualFeed_FetchSettles(TRUE, n)
    \/ VisualFeed_FetchSettles(FALSE, 0)
    \/ \E n \in 0..MaxFeedItems : Enhanced_FetchSettles(TRUE, n)
    \/ Enhanced_FetchSettles(FALSE, 0)
    \/ nextItem
    \/ prevItem
    \/ \E index \in 0..(MaxFeedItems - 1) : Dot(index)
    \/ \E code \in {"ArrowLeft", "ArrowRight", "Home", "End"} : handleKeyDown(code)

FeedInit == Init /\ isOnline

FeedSpec == FeedInit /\ [][FeedNext]_vars

\* One of the three components mounted and loading its list, the services
\* online and untouched.
ValidationInit ==
    /\ isOnline = TRUE
    /\ api_isOnline = TRUE
    /\ apiKey = ""
    /\ requestQueue = <<>>
    /\ lsToken = ""
    /\ lsUser = ""
    /\ call = [c \in Ids |-> NoCall]
    /\ api_apiKey = ""
    /\ Mounted
    /\ baseURL = "http://localhost:3000"
    /\ result = [c \in Ids |-> NoResult]
    /\ view \in {"quotes", "products", "customers"}
    /\ quotes = <<>>
    /\ loaded = <<>>
    /\ products = <<>>
    /\ customers = <<>>
    /\ editingQuote = 0
    /\ editingProduct = 0
    /\ editingCustomer = 0
    /\ loading = TRUE
    /\ showForm = FALSE
    /\ formData = IF view = "quotes" THEN EmptyForm
                  ELSE IF view = "products" THEN EmptyProductForm
                  ELSE EmptyCustomerForm
    /\ formErrors = {}
    /\ submitting = FALSE
    /\ request = NoRequest
    /\ analytics_isOnline = TRUE
    /\ AnalyticsConstructed
    /\ visualFeed = FeedMounted
    /\ enhancedVisualFeed = FeedMounted

\* The three forms, every field typed and emptied; the quote's line items
\* are added and removed, their values left alone.
ValidationNext ==
    \/ ~submitting /\ CreateQuoteButton
    \/ ~submitting /\ \E q \in 1..Len(quotes) : handleEdit(q)
    \/ ~submitting /\ view = "quotes" /\ \E t \in Titles : handleInputChange("title", t)
    \/ ~submitting /\ view = "quotes" /\ \E v \in {"", "7"} : handleInputChange("customerId", v)
    \/ ~submitting /\ view = "quotes" /\
          \E v \in {"", "2026-01-01"} : handleInputChange("validUntil", v)
    \/ ~submitting /\ addLineItem
    \/ ~submitting /\ \E i \in 1..MaxItems : removeLineItem(i)
    \/ ~submitting /\ Cancel
    \/ \E checked \in BOOLEAN : handleSubmit(checked)
    \/ \E list \in QuoteLists : QuotesLoaded(TRUE, list)
    \/ QuotesLoaded(FALSE, <<>>)
    \/ ~submitting /\ AddProductButton
    \/ ~submitting /\ \E p \in 1..Len(products) : Inventory_handleEdit(p)
    \/ ~submitting /\ view = "products" /\ \E v \in Names : handleInputChange("name", v)
    \/ ~submitting /\ view = "products" /\ \E v \in Skus : handleInputChange("sku", v)
    \/ ~submitting /\ view = "products" /\ \E v \in PriceInputs : handleInputChange("price", v)
    \/ ~submitting /\ view = "products" /\ \E v \in CostInputs : handleInputChange("cost", v)
    \/ ~submitting /\ view = "products" /\
          \E v \in StockInputs : handleInputChange("stockOnHand", v)
    \/ ~submitting /\ Inventory_Cancel
    \/ Inventory_handleSubmit
    \/ \E success \in BOOLEAN : ProductsLoaded(success)
    \/ ~submitting /\ AddCustomerButton
    \/ ~submitting /\ \E c \in 1..Len(customers) : Customer_handleEdit(c)
    \/ ~submitting /\ view = "customers" /\
          \E v \in Names : handleInputChange("companyName", v)
    \/ ~submitting /\ view = "customers" /\
          \E v \in {"", "N"} : handleInputChange("contactName", v)
    \/ ~submitting /\ view = "customers" /\ \E v \in Emails : handleInputChange("email", v)
    \/ ~submitting /\ Customer_Cancel
    \/ Customer_handleSubmit
    \/ \E success \in BOOLEAN : CustomersLoaded(success)
    \/ \E outcome \in {"success", "failure", "thrown"} : SaveSettles(outcome)

ValidationSpec == ValidationInit /\ [][ValidationNext]_vars

\* ------------------------------------------------------------------ claims
Pending(c) == call[c].pc \in {"queued", "replay"}

\* A POST, PUT or DELETE that went through the offline queue.
QueuedMutation(c) == call[c].queued /\ call[c].method \in Mutations

IsSettled(c) == call[c].pc \in {"resolved", "rejected"}

\* The call was handed to fetch at least once.
Sent(c) == call[c].fetches > 0

\* C1: a makeRequest issued while the client is marked offline is appended to
\* the offline queue, and not sent, exactly when its method is POST, PUT or
\* DELETE; every other request issued while offline is sent at once.
C1_OfflineQueuesExactlyMutations ==
    [][\A c \in Ids :
        (call[c].pc = "unused" /\ call'[c].svc = "enhanced" /\ ~isOnline)
        => /\ (call'[c].pc = "queued") <=> (call'[c].method \in Mutations)
           /\ (call'[c].pc = "queued") <=> (call'[c].fetches = 0)]_vars

\* C2: of two requests that went through the offline queue, the one queued
\* first is sent first and its handle is settled first.  Ids are given in the
\* order of the calls, so a < b means a was queued before b.
C2_ReplayInEnqueueOrder ==
    \A a, b \in Ids :
        (a < b /\ QueuedMutation(a) /\ QueuedMutation(b))
        => /\ Sent(b) => Sent(a)
           /\ IsSettled(b) => IsSettled(a)

\* The part of the order that the code keeps: the one queued first is sent
\* first.
C2_SentInEnqueueOrder ==
    \A a, b \in Ids :
        (a < b /\ QueuedMutation(a) /\ QueuedMutation(b)) => (Sent(b) => Sent(a))

\* C3: a request that was queued is not sent, and its handle not settled,
\* before an 'online' event that comes after it was queued.
C3_QueuedWaitsForOnline ==
    \A c \in Ids :
        (QueuedMutation(c) /\ (Sent(c) \/ IsSettled(c))) => call[c].onlineSince

\* C6: a queued request is replayed with the token installed at the time of
\* the replay, not with the one its config captured when it was queued.
C6_ReplayUsesCurrentToken ==
    [][\A c \in Ids :
        (call[c].pc = "queued" /\ call[c].method \in Mutations /\ call'[c].pc = "replay")
        => (call[c].token = apiKey \/ call[c].token = apiKey')]_vars

Range(q) == {q[i] : i \in 1..Len(q)}

\* C4: a request in the offline queue when an 'online' event arrives is
\* eventually settled and is then no longer in the queue, provided every
\* replayed fetch eventually settles.
C4_QueuedEventuallySettled ==
    \A c \in Ids :
        (call[c].queued /\ Pending(c) /\ call[c].onlineSince)
        ~> (IsSettled(c) /\ c \notin Range(requestQueue))

C4_Witness ==
    \E a, b \in Ids :
        /\ a < b
        /\ QueuedMutation(a) /\ call[a].onlineSince /\ IsSettled(a)
        /\ QueuedMutation(b) /\ call[b].onlineSince /\ IsSettled(b)

\* While requests that have seen an 'online' event wait in the queue, a drain
\* is running: some replayed fetch is awaited.
DrainAlive ==
    (\E c \in Range(requestQueue) : call[c].onlineSince)
    => \E d \in Ids : call[d].pc = "replay"

\* C5: when a replayed fetch fails, only that request's handle is settled (it
\* is rejected), the drain takes the next queued request in the same step, and
\* no drain ends while requests it was started for are still queued.
C5_ReplayFailureDoesNotAbort ==
    /\ [][\A c \in Ids :
            (call[c].pc = "replay" /\ call'[c].pc = "rejected")
            => /\ \A d \in Ids \ {c} :
                    /\ (call'[d].pc = "rejected") <=> (call[d].pc = "rejected")
                    /\ (call'[d].pc = "resolved") <=> (call[d].pc = "resolved")
               /\ requestQueue # <<>>
                  => /\ call'[Head(requestQueue)].pc = "replay"
                     /\ requestQueue' = Tail(requestQueue)]_vars
    /\ []DrainAlive

C5_Witness ==
    \E a, b \in Ids :
        /\ a < b
        /\ QueuedMutation(a) /\ call[a].pc = "rejected" /\ call[a].fetches = 1
        /\ call[a].lastError.status = NETERR
        /\ QueuedMutation(b) /\ call[b].onlineSince /\ call[b].pc = "resolved"

\* A call that went through the retry loop of makeRequest or of request.
Direct(c) == call[c].svc \in {"enhanced", "api"} /\ ~call[c].queued /\ call[c].fetches > 0

\* C7: a call whose attempt is answered 401 or 403 is not retried: that
\* attempt is its last fetch and the error surfaces at once, in makeRequest
\* and in ApiService.request.
C7_AuthErrorsNotRetried ==
    \A c \in Ids :
        (Direct(c) /\ call[c].lastError.status \in {401, 403})
        => (call[c].pc = "rejected" /\ call[c].fetches = call[c].attempt)

\* The part of C7 that the code keeps: makeRequest does not retry a 401 or 403.
EnhancedAuthErrorsNotRetried ==
    \A c \in Ids :
        (Direct(c) /\ call[c].svc = "enhanced" /\ call[c].lastError.status \in {401, 403})
        => (call[c].pc = "rejected" /\ call[c].fetches = call[c].attempt)

\* C8: a call whose attempt is answered 400 or 404 is not retried, in
\* makeRequest and in ApiService.request.
C8_ClientErrorsNotRetried ==
    \A c \in Ids :
        (Direct(c) /\ call[c].lastError.status \in {400, 404})
        => (call[c].pc = "rejected" /\ call[c].fetches = call[c].attempt)

\* The delays of a call that has failed n times: 1000, 2000, ...
LinearDelays(n) == [k \in 1..n |-> k * retryDelay]

\* C9: a call of which every attempt fails with a network error or a 5xx makes
\* exactly retryAttempts fetches before it surfaces the last error; it waits
\* k x 1000 ms before attempt k+1, and does not wait after the last attempt.
C9_TransientRetriedToTheLimit ==
    \A c \in Ids :
        (Direct(c) /\ call[c].allTransient /\ call[c].pc # "resolved")
        => /\ call[c].pc = "rejected"
              => /\ call[c].fetches = retryAttempts
                 /\ call[c].delays = LinearDelays(retryAttempts - 1)
           /\ call[c].pc = "fetch" => call[c].delays = LinearDelays(call[c].fetches - 1)
           /\ call[c].pc = "backoff" => call[c].delays = LinearDelays(call[c].fetches)

\* The part of C9 that the code keeps: ApiService.request, whose 5xx message is
\* rewritten before the retry decision.
ApiTransientRetriedToTheLimit ==
    \A c \in Ids :
        (Direct(c) /\ call[c].svc = "api" /\ call[c].allTransient /\ call[c].pc = "rejected")
        => /\ call[c].fetches = retryAttempts
           /\ call[c].delays = LinearDelays(retryAttempts - 1)

\* C10: a call whose first k attempts fail with a network error or a 5xx
\* (k < retryAttempts) and whose next attempt succeeds has made k+1 fetches
\* and returns that answer: an attempt that succeeds resolves the call in the
\* same step, and a resolved call makes no further fetch.
C10_SuccessEndsTheRetries ==
    /\ [](\A c \in Ids :
            (Direct(c) /\ call[c].allTransient /\ call[c].pc = "resolved")
            => /\ call[c].fetches = Len(call[c].delays) + 1
               /\ call[c].fetches <= retryAttempts
               /\ call[c].delays = LinearDelays(call[c].fetches - 1))
    /\ [][\A c \in Ids :
            /\ (call[c].pc = "fetch" /\ \E o \in Outcomes : Succeeds(o) /\ FetchSettles(c, o))
               => (call'[c].pc = "resolved" /\ call'[c].fetches = call[c].fetches)
            /\ call[c].pc = "resolved" => call'[c] = call[c]]_vars

C10_Witness ==
    \E c \in Ids :
        /\ Direct(c) /\ call[c].allTransient /\ call[c].pc = "resolved"
        /\ call[c].fetches = retryAttempts
        /\ call[c].delays = <<1000, 2000>>

\* C11: in every reachable session state a non-null user implies a non-empty
\* session token in localStorage and in the ApiService instance: the user is
\* never set while the token has been cleared.
C11_UserImpliesToken ==
    user # "" => (lsToken # "" /\ api_apiKey # "")

\* An operation of AuthProvider has just ended.
JustEnded(op) == last.op = op

\* C12: when login, checkAuthStatus or logout has just ended, the token
\* installed in ApiService equals the stored token if the session is
\* authenticated, and is empty if the session is anonymous.
C12_InstalledTokenInSync ==
    (JustEnded("login") \/ JustEnded("check") \/ JustEnded("logout"))
    => IF isAuthenticated THEN api_apiKey = lsToken ELSE api_apiKey = ""

\* C13: a login whose authenticate answer holds both a token and a user ends
\* with the session authenticated, localStorage holding exactly that token
\* and the JSON text of that user, and ApiService's token equal to that token.
LoginAnswered(t, u) ==
    /\ JustEnded("login")
    /\ last.resolved
    /\ last.token = t
    /\ last.user = u

C13_LoginInstallsTheSession ==
    \A t \in Tokens, u \in Users :
        LoginAnswered(t, u)
        => /\ isAuthenticated
           /\ user = u
           /\ lsToken = t
           /\ lsUser = JSONstringify(u)
           /\ api_apiKey = t

C13_Witness ==
    /\ LoginAnswered("t1", "u1")
    /\ \E c \in Ids : call[c].method = "POST" /\ call[c].pc = "resolved"

\* C14: a login whose answer lacks the token or the user, and a login whose
\* request fails, change nothing of the session: isAuthenticated, user, both
\* localStorage keys and ApiService's token stay as they were.  The first
\* reports the generic message, the second the message of the request's
\* error.
LoginFailed == last.op = "login" /\ (~last.resolved \/ last.token = "" \/ last.user = "")

C14_FailedLoginChangesNothing ==
    [][LoginFailed'
       => /\ isAuthenticated' = isAuthenticated
          /\ user' = user
          /\ lsToken' = lsToken
          /\ lsUser' = lsUser
          /\ api_apiKey' = api_apiKey
          /\ IF last'.resolved
             THEN error' = InvalidResponse
             ELSE \E c \in Ids : /\ call'[c].pc = "rejected"
                                 /\ call'[c].method = "POST"
                                 /\ error' = MessageOf(call'[c].lastError)]_vars

C14_Witness ==
    /\ JustEnded("login")
    /\ last.resolved
    /\ last.token = "t1"
    /\ last.user = ""
    /\ error = InvalidResponse
    /\ lsToken = ""
    /\ api_apiKey = ""

\* C15: logout, called in any state, is one synchronous step that starts no
\* request; when it has ended both localStorage keys are gone, ApiService's
\* token is empty, and the session is anonymous with a null user and no error.
C15_LogoutClearsEverything ==
    [][JustEnded("logout")'
       => /\ lsToken' = "" /\ lsUser' = ""
          /\ api_apiKey' = ""
          /\ ~isAuthenticated' /\ user' = "" /\ error' = NoMessage
          /\ ~JustEnded("logout") => (call' = call /\ requestQueue' = requestQueue)]_vars

\* logout has ended while a login request is still in flight.
C15_Witness ==
    /\ JustEnded("logout")
    /\ \E c \in Ids : call[c].op = "login" /\ call[c].pc = "fetch"
    /\ lsToken = "" /\ api_apiKey = "" /\ user = ""

\* C16: the probe that checkAuthStatus sends is built with the token found in
\* localStorage: the stored token is installed before the request is made.
C16_ProbeUsesStoredToken ==
    [][\A c \in Ids :
        (call[c].pc = "unused" /\ call'[c].op = "check")
        => call'[c].token = lsToken]_vars

\* C17: checkAuthStatus with both keys stored ends authenticated, with the
\* stored user restored and the stored token installed, when the probe
\* succeeds; when the probe fails it ends anonymous, both keys removed and
\* the "session expired" message set.  With either key missing it sends no
\* probe and ends anonymous.
CheckEnded == JustEnded("check")

HadBothKeys == last.token # "" /\ last.user # ""

C17_CheckStatusOutcomes ==
    CheckEnded
    => IF HadBothKeys /\ last.resolved
       THEN /\ isAuthenticated
            /\ user = JSONparse(last.user)
            /\ api_apiKey = last.token
       ELSE IF HadBothKeys
       THEN /\ ~isAuthenticated
            /\ lsToken = "" /\ lsUser = ""
            /\ error = SessionExpired
       ELSE /\ ~isAuthenticated
            /\ \A c \in Ids : call[c].pc = "unused"

\* C18: the two localStorage keys change only in a step of login, logout or
\* checkAuthStatus, and after such a step both are set or both are absent; no
\* operation of the request layer writes or removes either of them.
C18_OnlyAuthProviderWritesStorage ==
    [][(lsToken' # lsToken \/ lsUser' # lsUser)
       => /\ last'.op \in {"login", "check", "logout"}
          /\ (lsToken' = "") <=> (lsUser' = "")]_vars

\* The token of the service a call went through.
KeyOf(c) == IF call[c].svc = "enhanced" THEN apiKey ELSE api_apiKey

\* The local development host with no token installed.
Development(c) == IncludesLocalhost(baseURL) /\ KeyOf(c) = ""

\* The request of a list read has failed: its promise was rejected.
ListReadFailed(c) == call[c].pc = "rejected" /\ result[c] # NoResult

\* C19: a list read hands out the mock records only when the base URL is the
\* local development host and no token is installed; with another base URL,
\* or with a token, a failed list read throws and never hands out mock
\* records.
C19_MocksOnlyInDevelopment ==
    \A c \in Ids :
        /\ result[c].handed = "mock" => Development(c)
        /\ (ListReadFailed(c) /\ ~Development(c)) => result[c].handed = "thrown"

\* C20: a list read answered with a failure envelope under an ok status,
\* against the local development host with no token, hands the mock records
\* to its caller: not the envelope in the place of the list, and not a thrown
\* error.
C20_FailureEnvelopeGivesMocks ==
    \A c \in Ids :
        (result[c].answer = "envelope_fail" /\ Development(c))
        => result[c].handed = "mock"

\* A write that was sent at once, the client being online.
SentWrite(c) ==
    /\ call[c].svc = "enhanced"
    /\ call[c].method \in Mutations
    /\ ~call[c].queued

\* C21: a write sent while online whose request fails is handed to its
\* caller as a thrown error, and no write is ever handed mock records.
C21_FailedWriteThrows ==
    \A c \in Ids :
        SentWrite(c)
        => /\ call[c].pc = "rejected" => result[c].handed = "thrown"
           /\ result[c].handed # "mock"

\* A write has failed after three attempts in the development configuration,
\* where a read falls back to mock records.
C21_Witness ==
    \E c \in Ids :
        /\ SentWrite(c)
        /\ call[c].pc = "rejected"
        /\ call[c].fetches = retryAttempts
        /\ Development(c)
        /\ result[c].handed = "thrown"

\* The objects formData.lineItems refers to, in order.
FormItems ==
    [i \in 1..Len(formData.lineItems) |-> ItemOf(quotes, formData.lineItems[i])]

\* A createQuote / updateQuote is in flight.
Saving == request.op # "none"

\* C22: at submit time the total sent to the backend is the sum, over the
\* line items the form holds at that moment, of quantity x unitPrice,
\* whatever total the edited quote holds.
C22_TotalRecomputedAtSubmit ==
    [][(~Saving /\ Saving') => request'.total = Reduce(FormItems)]_vars

\* Quote 1, stored with the stale total 99, is edited; a line item is added
\* and priced; the update is sent with 2 x 10 + 1 x 5 = 25.
C22_Witness ==
    /\ request.op = "updateQuote"
    /\ quotes[request.id].total = 99
    /\ request.lineItems = <<Item(2, 10), Item(1, 5)>>
    /\ request.total = 25

C30_CancelLeavesQuotesUnchanged == ~showForm => quotes = loaded

\* The forms the claim says must not be sent: a required field missing, an
\* email that is not an address, the SKU of another loaded product, no line
\* items.
QuoteFormInvalid ==
    \/ Trim(formData.title) = "" \/ formData.customerId = "" \/ formData.validUntil = ""
    \/ formData.lineItems = <<>>

ProductFormInvalid ==
    \/ Trim(formData.name) = "" \/ Trim(formData.sku) = ""
    \/ formData.price = "" \/ formData.cost = "" \/ formData.stockOnHand = ""
    \/ \E i \in 1..Len(products) :
          products[i].sku = formData.sku /\ products[i].id # editingProduct

CustomerFormInvalid ==
    \/ Trim(formData.companyName) = "" \/ Trim(formData.contactName) = ""
    \/ Trim(formData.email) = "" \/ formData.email = "bad"

FormInvalid ==
    IF view = "quotes" THEN QuoteFormInvalid
    ELSE IF view = "products" THEN ProductFormInvalid
    ELSE CustomerFormInvalid

\* C23: a submit of an invalid form issues no create or update request, and
\* a submit flags the SKU only when it is missing or is the SKU of another
\* loaded product, so the edited product's own SKU is no duplicate.
C23_InvalidFormIsNotSent ==
    [][/\ (~Saving /\ Saving') => ~FormInvalid
       /\ (view = "products" /\ "sku" \in formErrors' /\ "sku" \notin formErrors)
             => (\/ Trim(formData.sku) = ""
                 \/ \E i \in 1..Len(products) :
                       products[i].sku = formData.sku /\ products[i].id # editingProduct)
      ]_vars

\* Product 1 is edited, its SKU changed to the one of product 2; the submit
\* has flagged the SKU and sent nothing.
C23_Witness ==
    /\ view = "products"
    /\ editingProduct = 1
    /\ formData.sku = "B"
    /\ formErrors = {"sku"}
    /\ ~submitting
    /\ ~Saving

\* How often call c stands in the queue.
Occurrences(c) == Cardinality({i \in 1..Len(requestQueue) : requestQueue[i] = c})

\* A queued request is waiting in the queue once and not sent, or out of
\* the queue and sent once, its handle pending or settled.
ReplayedOnce(c) ==
    \/ call[c].pc = "queued" /\ call[c].fetches = 0 /\ Occurrences(c) = 1
    \/ call[c].pc \in {"replay", "resolved", "rejected"}
          /\ call[c].fetches = 1 /\ Occurrences(c) = 0

\* C25: every queued request is replayed exactly once and its handle is
\* settled exactly once, also when drains overlap: none is sent twice, none
\* leaves the queue without being sent, and a settled handle stays as it
\* was settled.
C25_ReplayedAndSettledOnce ==
    [][\A c \in Ids :
          /\ call'[c].queued => ReplayedOnce(c)'
          /\ (call[c].queued /\ IsSettled(c)) => call'[c].pc = call[c].pc
      ]_vars

\* Two drains overlap: two replays are awaited at the same time.
C25_Witness ==
    \E c, d \in Ids :
        /\ c # d
        /\ call[c].queued /\ call[c].pc = "replay"
        /\ call[d].queued /\ call[d].pc = "replay"

\* The session is anonymous, durable storage and the installed token empty.
Anonymous ==
    /\ ~isAuthenticated /\ user = ""
    /\ lsToken = "" /\ lsUser = ""
    /\ api_apiKey = ""

\* C26: while logout is the last operation to have ended and no login or
\* checkAuthStatus has been started since, the session stays anonymous with
\* empty storage and no installed token: what a login or a probe that was
\* in flight at the logout brings back changes none of it.
C26_LogoutIsFinal ==
    [][(/\ JustEnded("logout")
        /\ \A c \in Ids : call[c].pc = "unused" => call'[c].pc = "unused")
       => Anonymous']_vars

\* The handle of a replayed request has been settled.
ReplaySettled(c) == call[c].queued /\ IsSettled(c)

\* C27: a replayed request is sent once and never retried, and its handle
\* is resolved exactly when fetch answered, with any status, and the body
\* parsed; it is rejected only when fetch failed or the body did not parse.
C27_ReplayResolvesOnAnyStatus ==
    \A c \in Ids :
        /\ call[c].queued => call[c].fetches <= 1 /\ call[c].delays = <<>>
        /\ ReplaySettled(c) =>
              /\ call[c].fetches = 1
              /\ call[c].pc = "resolved"
                    <=> (call[c].reply.status # NETERR /\ call[c].reply.body # "nonjson")

\* A replay answered 500 with a JSON body has resolved its handle, and a
\* direct request answered 500 has been rejected after its retries.
C27_Witness ==
    \E c, d \in Ids :
        /\ ReplaySettled(c) /\ call[c].reply = [status |-> 500, body |-> "msg"]
        /\ call[c].pc = "resolved"
        /\ ~call[d].queued /\ call[d].pc = "rejected" /\ call[d].lastError.status = 500
        /\ call[d].fetches = retryAttempts

\* The items logged to a queue and not delivered.
Undelivered(kind) == {n \in 1..Len(logged) : logged[n] = kind /\ n \notin delivered}

\* A queue holds its items in the order they were logged, each once.
InLoggedOrder(queue) == \A i, j \in 1..Len(queue) : i < j => queue[i] < queue[j]

\* Every item logged to a queue and not delivered is in it, and nothing else.
HoldsUndelivered(kind, queue) == Range(queue) = Undelivered(kind)

\* C28: when no flush is awaiting its send, each queue holds exactly the
\* items logged to it and not yet delivered, each once, in the order they
\* were logged.
C28_QueuesHoldUndeliveredInOrder ==
    inFlight = {} =>
        /\ HoldsUndelivered("error", errorQueue) /\ InLoggedOrder(errorQueue)
        /\ HoldsUndelivered("event", eventQueue) /\ InLoggedOrder(eventQueue)

\* The part of C28 that holds: nothing is lost and nothing is doubled.
C28_NothingLostOrDoubled ==
    inFlight = {} =>
        /\ HoldsUndelivered("error", errorQueue) /\ Len(errorQueue) = Cardinality(Range(errorQueue))
        /\ HoldsUndelivered("event", eventQueue) /\ Len(eventQueue) = Cardinality(Range(eventQueue))

\* C29: while VisualFeed displays a card and the AccessibilityLayer is
\* rendered, the index EnhancedVisualFeed passes to the layer is the index
\* of the displayed card, and each index is within its component's items.
C29_IndicesAgree ==
    (ShowsCard(visualFeed) /\ enhancedVisualFeed.items > 0) =>
        /\ enhancedVisualFeed.currentIndex = visualFeed.currentIndex
        /\ visualFeed.currentIndex \in 0..(visualFeed.items - 1)
        /\ enhancedVisualFeed.currentIndex \in 0..(enhancedVisualFeed.items - 1)

\* The part of C29 that holds: each index is within its own items.
C29_IndicesInRange ==
    /\ ShowsCard(visualFeed) => visualFeed.currentIndex \in 0..(visualFeed.items - 1)
    /\ enhancedVisualFeed.items > 0
          => enhancedVisualFeed.currentIndex \in 0..(enhancedVisualFeed.items - 1)

====
